---------------------------- MODULE Spec2Model ----------------------------
(***************************************************************************)
(* A model of the react-viz project scanner (src/backend.go and the alias  *)
(* resolver src/unnamed/part_004) and of the tree view of its front end    *)
(* (src/frontend/src/components/TreeView.tsx).                             *)
(*                                                                         *)
(* Strings are sequences of symbols.  A symbol is a TLA+ string standing   *)
(* for an indivisible run of characters ("index", "node_modules", "js");   *)
(* the separators "/" and "\\" and the dot "." are symbols of their own,   *)
(* so that prefix tests, splitting at separators, extensions and the       *)
(* backslash rewrite are computed the way the Go code computes them.       *)
(* Paths follow the Unix flavour of path/filepath (Separator = "/").       *)
(***************************************************************************)
EXTENDS Integers, Sequences, FiniteSets, TLC

VARIABLES
    pc,          \* position of the GetProjectJSON call
    rootDir,     \* the rootDir argument of the scan
    disk,        \* eligible and other files under rootDir: relPath -> content
    cfgDisk,     \* the configuration files at the project root
    aliasConfig, \* AliasConfig returned by ReadProjectConfig
    todo,        \* entries filepath.Walk has still to hand to the callback
    project,     \* the Project under construction
    relTodo,     \* keys buildRelationships' range has still to visit
    err,         \* the error ScanProject / GetProjectJSON returns
    fault,       \* the I/O failure the environment produced, if any
    jsonOut,     \* the document GetProjectJSON returns
    saved,       \* ~/.local/reactviz: [dir |-> it exists, files |-> name :> content]
    probe        \* inputs and outputs of the pure functions under test

vars == <<pc, rootDir, disk, cfgDisk, aliasConfig, todo, project, relTodo,
          err, fault, jsonOut, saved, probe>>

-----------------------------------------------------------------------------
(* Strings                                                                 *)

Sep == "/"
Dot == "."
Backslash == "\\"

\* Symbols in byte order of their first character (sort.Strings order).
Alphabet == <<".", "/", "2", "@", "B", "U", "\\", "a", "b", "build",
              "c", "css", "dist", "index", "js", "jsx", "node_modules", "p",
              "react", "root", "src", "store", "ts", "tsx", "x">>

Rank(sym) == CHOOSE i \in 1..Len(Alphabet) : Alphabet[i] = sym

IsUpper(sym) == sym \in {"B", "U"}

Last(s) == s[Len(s)]

HasPrefix(s, prefix) ==
    /\ Len(prefix) <= Len(s)
    /\ SubSeq(s, 1, Len(prefix)) = prefix

HasSuffix(s, suffix) ==
    /\ Len(suffix) <= Len(s)
    /\ SubSeq(s, Len(s) - Len(suffix) + 1, Len(s)) = suffix

TrimPrefix(s, prefix) ==
    IF HasPrefix(s, prefix) THEN SubSeq(s, Len(prefix) + 1, Len(s)) ELSE s

TrimSuffix(s, suffix) ==
    IF HasSuffix(s, suffix) THEN SubSeq(s, 1, Len(s) - Len(suffix)) ELSE s

Contains(s, sub) ==
    \E i \in 0..(Len(s) - Len(sub)) : SubSeq(s, i + 1, i + Len(sub)) = sub

\* strings.LastIndex for a one-symbol needle; 0 when absent.
LastIndex(s, sym) ==
    IF \E i \in 1..Len(s) : s[i] = sym
    THEN CHOOSE i \in 1..Len(s) : s[i] = sym /\ \A j \in (i+1)..Len(s) : s[j] # sym
    ELSE 0

\* Lexicographic order of strings by symbol rank.
RECURSIVE StrLess(_, _)
StrLess(s, t) ==
    IF t = <<>> THEN FALSE
    ELSE IF s = <<>> THEN TRUE
    ELSE IF Head(s) = Head(t) THEN StrLess(Tail(s), Tail(t))
    ELSE Rank(Head(s)) < Rank(Head(t))

RECURSIVE SortStrings(_)
SortStrings(S) ==
    IF S = {} THEN <<>>
    ELSE LET m == CHOOSE x \in S : \A y \in S \ {x} : StrLess(x, y)
         IN  <<m>> \o SortStrings(S \ {m})

\* strings.Split(s, "/")
RECURSIVE Split(_)
Split(s) ==
    IF \A i \in 1..Len(s) : s[i] # Sep THEN <<s>>
    ELSE LET i == CHOOSE k \in 1..Len(s) : s[k] = Sep /\ \A j \in 1..(k-1) : s[j] # Sep
         IN  <<SubSeq(s, 1, i - 1)>> \o Split(SubSeq(s, i + 1, Len(s)))

\* strings.Join(parts, "/")
RECURSIVE JoinSep(_)
JoinSep(parts) ==
    IF parts = <<>> THEN <<>>
    ELSE IF Len(parts) = 1 THEN parts[1]
    ELSE parts[1] \o <<Sep>> \o JoinSep(Tail(parts))

-----------------------------------------------------------------------------
(* path/filepath (Unix)                                                    *)

DotDot == <<Dot, Dot>>

IsAbs(p) == HasPrefix(p, <<Sep>>)

\* The segments that survive Clean: empty and "." segments vanish, ".."
\* removes the segment before it (or stays, in a relative path).
RECURSIVE CleanSegs(_, _, _)
CleanSegs(segs, out, rooted) ==
    IF segs = <<>> THEN out
    ELSE LET h == Head(segs) IN
         IF h = <<>> \/ h = <<Dot>> THEN CleanSegs(Tail(segs), out, rooted)
         ELSE IF h = DotDot THEN
              IF out # <<>> /\ Last(out) # DotDot
              THEN CleanSegs(Tail(segs), SubSeq(out, 1, Len(out) - 1), rooted)
              ELSE IF rooted THEN CleanSegs(Tail(segs), out, rooted)
              ELSE CleanSegs(Tail(segs), Append(out, h), rooted)
         ELSE CleanSegs(Tail(segs), Append(out, h), rooted)

Clean(p) ==
    IF p = <<>> THEN <<Dot>>
    ELSE LET segs == CleanSegs(Split(p), <<>>, IsAbs(p)) IN
         IF IsAbs(p) THEN <<Sep>> \o JoinSep(segs)
         ELSE IF segs = <<>> THEN <<Dot>>
         ELSE JoinSep(segs)

\* filepath.Join: empty elements are ignored, the rest joined and cleaned.
Join(elems) ==
    LET ne == SelectSeq(elems, LAMBDA e : e # <<>>) IN
    IF ne = <<>> THEN <<>> ELSE Clean(JoinSep(ne))

Dir(p) == Clean(SubSeq(p, 1, LastIndex(p, Sep)))

RECURSIVE StripTrailingSeps(_)
StripTrailingSeps(p) ==
    IF Len(p) > 0 /\ Last(p) = Sep
    THEN StripTrailingSeps(SubSeq(p, 1, Len(p) - 1)) ELSE p

Base(p) ==
    IF p = <<>> THEN <<Dot>>
    ELSE LET q == StripTrailingSeps(p) IN
         IF q = <<>> THEN <<Sep>>
         ELSE SubSeq(q, LastIndex(q, Sep) + 1, Len(q))

\* filepath.Ext: from the last dot of the last element; "" without one.
Ext(p) ==
    LET b == SubSeq(p, LastIndex(p, Sep) + 1, Len(p))
        i == LastIndex(b, Dot)
    IN  IF i = 0 THEN <<>> ELSE SubSeq(b, i, Len(b))

\* filepath.Rel: [ok |-> FALSE] is Rel's error.
RECURSIVE CommonLen(_, _)
CommonLen(a, b) ==
    IF a = <<>> \/ b = <<>> \/ Head(a) # Head(b) THEN 0
    ELSE 1 + CommonLen(Tail(a), Tail(b))

Rel(basepath, targpath) ==
    LET b == Clean(basepath)
        t == Clean(targpath)
    IN  IF b = t THEN [ok |-> TRUE, path |-> <<Dot>>]
        ELSE IF IsAbs(b) # IsAbs(t) THEN [ok |-> FALSE, path |-> <<>>]
        ELSE LET bs == IF b = <<Dot>> THEN <<>> ELSE CleanSegs(Split(b), <<>>, IsAbs(b))
                 ts == IF t = <<Dot>> THEN <<>> ELSE CleanSegs(Split(t), <<>>, IsAbs(t))
                 n  == CommonLen(bs, ts)
                 up == SubSeq(bs, n + 1, Len(bs))
             IN  IF \E i \in 1..Len(up) : up[i] = DotDot
                 THEN [ok |-> FALSE, path |-> <<>>]
                 ELSE [ok |-> TRUE,
                       path |-> JoinSep([i \in 1..Len(up) |-> DotDot]
                                        \o SubSeq(ts, n + 1, Len(ts)))]

-----------------------------------------------------------------------------
(* Alias configuration (src/unnamed/part_004)                              *)

NoAliases == [a \in {} |-> <<>>]

\* The candidates of ReadProjectConfig in the order it consults them, with
\* the filepath.Ext of each (".babelrc" has the extension ".babelrc").
configFiles == <<"jsconfig.json", "tsconfig.json", "webpack.config.js",
                 "craco.config.js", ".babelrc", "babel.config.js",
                 "package.json">>

ConfigExt(configFile) ==
    IF configFile \in {"jsconfig.json", "tsconfig.json", "package.json"} THEN ".json"
    ELSE IF configFile = ".babelrc" THEN ".babelrc"
    ELSE ".js"

\* A configuration file on disk is
\*   [exists, readable, valid, hasBaseUrl, baseUrl, aliases]
\* valid: json.Unmarshal succeeds; hasBaseUrl / baseUrl / aliases: what the
\* file yields (compilerOptions of a js/tsconfig with "/*" already trimmed
\* from patterns and first targets, alias table of package.json, or the
\* regular-expression matches of parseJSConfig in a .js file).
AbsentFile == [exists |-> FALSE, readable |-> FALSE, valid |-> FALSE,
               hasBaseUrl |-> FALSE, baseUrl |-> <<>>, aliases |-> NoAliases]

\* m1 overwritten / extended by m2 (assignments into config.Aliases).
MergeAliases(m1, m2) ==
    [a \in (DOMAIN m1) \cup (DOMAIN m2) |->
        IF a \in DOMAIN m2 THEN m2[a] ELSE m1[a]]

\* A parseJSONConfig that reads compilerOptions.baseUrl and no paths.
parseJSONConfigNoPaths(configFile, file, config) ==
    IF ~file.readable THEN [failed |-> TRUE, config |-> config]
    ELSE IF configFile \in {"jsconfig.json", "tsconfig.json"} /\ file.valid
    THEN [failed |-> FALSE, config |-> [config EXCEPT !.BaseURL = file.baseUrl]]
    ELSE [failed |-> FALSE, config |-> config]

\* parseJSONConfig: [failed |-> the returned error is non-nil, config |-> ...]
parseJSONConfig(configFile, file, config) ==
    IF ~file.readable THEN [failed |-> TRUE, config |-> config]
    ELSE IF configFile \in {"jsconfig.json", "tsconfig.json"} /\ file.valid
    THEN [failed |-> FALSE,
          config |-> [BaseURL |-> file.baseUrl,
                      Aliases |-> MergeAliases(config.Aliases, file.aliases)]]
    ELSE IF configFile = "package.json" /\ file.valid
    THEN [failed |-> FALSE,
          config |-> [config EXCEPT !.Aliases = MergeAliases(@, file.aliases)]]
    ELSE [failed |-> FALSE, config |-> config]

\* parseJSConfig: a matched baseUrl pattern and the alias block's pairs.
parseJSConfig(file, config) ==
    IF ~file.readable THEN config
    ELSE [BaseURL |-> IF file.hasBaseUrl THEN file.baseUrl ELSE config.BaseURL,
          Aliases |-> MergeAliases(config.Aliases, file.aliases)]

\* The loop of ReadProjectConfig from candidate i on; srcExists is the
\* os.Stat of rootDir/src after the loop.
RECURSIVE ReadConfigFrom(_, _, _, _)
ReadConfigFrom(i, files, config, srcExists) ==
    IF i > Len(configFiles)
    THEN IF srcExists THEN [config EXCEPT !.BaseURL = <<"src">>] ELSE config
    ELSE LET cf == configFiles[i]
             f  == files[cf]
         IN  IF ~f.exists THEN ReadConfigFrom(i + 1, files, config, srcExists)
             ELSE IF ConfigExt(cf) = ".json"
             THEN LET r == parseJSONConfig(cf, f, config) IN
                  IF ~r.failed THEN r.config
                  ELSE ReadConfigFrom(i + 1, files, r.config, srcExists)
             ELSE IF ConfigExt(cf) = ".js"
             THEN ReadConfigFrom(i + 1, files, parseJSConfig(f, config), srcExists)
             ELSE ReadConfigFrom(i + 1, files, config, srcExists)

ReadProjectConfig(files, srcExists) ==
    ReadConfigFrom(1, files, [BaseURL |-> <<>>, Aliases |-> NoAliases], srcExists)

\* An alias resolution that always starts at the project directory.
ResolveWithAliasUnderRoot(importPath, config, projectDir, alias) ==
    LET trimmed == TrimPrefix(importPath, alias)
        relativePath == IF HasPrefix(trimmed, <<Sep>>) THEN Tail(trimmed) ELSE trimmed
    IN  Join(<<projectDir, config.Aliases[alias], relativePath>>)

\* What ResolveImportPath returns when the range over config.Aliases meets
\* alias first among those that prefix-match.
ResolveWithAlias(importPath, config, projectDir, alias) ==
    LET target == config.Aliases[alias]
        trimmed == TrimPrefix(importPath, alias)
        relativePath == IF HasPrefix(trimmed, <<Sep>>) THEN Tail(trimmed) ELSE trimmed
    IN  IF IsAbs(target) THEN Join(<<target, relativePath>>)
        ELSE IF config.BaseURL # <<>>
        THEN Join(<<projectDir, config.BaseURL, target, relativePath>>)
        ELSE Join(<<projectDir, target, relativePath>>)

\* ResolveImportPath: the set of paths a call can return.  Go ranges over the
\* alias map in an unspecified order, so any prefix-matching alias can be the
\* first the loop meets.
ResolveImportPath(importPath, config, projectDir, currentDir) ==
    IF HasPrefix(importPath, <<Dot>>) THEN {Join(<<currentDir, importPath>>)}
    ELSE IF HasPrefix(importPath, <<Sep>>) THEN {Join(<<projectDir, Tail(importPath)>>)}
    ELSE LET matching == {a \in DOMAIN config.Aliases : HasPrefix(importPath, a)} IN
         IF matching # {}
         THEN {ResolveWithAlias(importPath, config, projectDir, a) : a \in matching}
         ELSE IF config.BaseURL # <<>>
         THEN {Join(<<projectDir, config.BaseURL, importPath>>)}
         ELSE {Join(<<projectDir, importPath>>)}

-----------------------------------------------------------------------------
(* File classification and import extraction (src/backend.go)              *)

\* A file's text is represented by what the scanner's substring tests and
\* regular expressions find in it:
\*   importReact  "import React" / from 'react' / from "react" occurs
\*   returnParen  "return (" occurs          lt          "<" occurs
\*   selfClose    "/>" occurs                decl        (function|const|class) \w+ [({ matches
\*   render       "render" occurs            return      "return" occurs
\*   stateWord    one of createStore, combineReducers, createSlice, useContext,
\*                createContext, Provider, zustand, recoil, jotai, mobx occurs
\*   upperDecls   matches of (function|const|class) [A-Z]\w+ [({
\*   imports      the specifiers matched by importRegex, in order
isReactFile(filename) ==
    Ext(filename) \in {<<Dot, "js">>, <<Dot, "jsx">>, <<Dot, "ts">>, <<Dot, "tsx">>}

isComponentFile(content, fileName) ==
    LET hasReactImport == content.importReact
        hasJSXReturn == content.returnParen /\ (content.lt /\ content.selfClose)
        hasComponentDef == (content.decl /\ content.render) \/ content.return
        startsWithUppercase == Len(fileName) > 0 /\ IsUpper(fileName[1])
    IN  (hasReactImport /\ (hasJSXReturn \/ hasComponentDef)) \/ startsWithUppercase

hasMultipleComponents(content) == content.upperDecls > 1

StatePathWords == {<<"redux">>, <<"store">>, <<"state">>, <<"reducer">>, <<"action">>}

isStateFile(content, path) ==
    LET isRedux == content.stateWord \/ \E w \in StatePathWords : Contains(path, w)
        isOtherState == content.stateWord
    IN  isRedux \/ isOtherState

FileType(content, fileName, relPath) ==
    IF isComponentFile(content, fileName) THEN "component"
    ELSE IF isStateFile(content, relPath) THEN "state"
    ELSE "util"

\* os.Stat(fullPath) succeeds: fullPath names a file of the scanned tree.
StatOk(fullPath, root, files) ==
    \E f \in files : Join(<<root, f>>) = Clean(fullPath)

possibleExts == << <<Dot, "js">>, <<Dot, "jsx">>, <<Dot, "ts">>, <<Dot, "tsx">> >>

\* An extension probe that looks for a directory index before a direct file.
AddExtensionIndexFirst(resolvedPath, root, files) ==
    IF Contains(Base(resolvedPath), <<Dot>>) THEN resolvedPath
    ELSE LET direct == {i \in 1..Len(possibleExts) :
                          StatOk(Join(<<root, resolvedPath \o possibleExts[i]>>), root, files)}
             index  == {i \in 1..Len(possibleExts) :
                          StatOk(Join(<<root, resolvedPath, <<"index">> \o possibleExts[i]>>),
                                 root, files)}
             first(S) == CHOOSE i \in S : \A j \in S : i <= j
         IN  IF index # {}
             THEN Join(<<resolvedPath, <<"index">> \o possibleExts[first(index)]>>)
             ELSE IF direct # {} THEN resolvedPath \o possibleExts[first(direct)]
             ELSE resolvedPath

\* Lines 258-282: the extension probe of one resolved path.
AddExtension(resolvedPath, root, files) ==
    IF Contains(Base(resolvedPath), <<Dot>>) THEN resolvedPath
    ELSE LET direct == {i \in 1..Len(possibleExts) :
                          StatOk(Join(<<root, resolvedPath \o possibleExts[i]>>), root, files)}
             index  == {i \in 1..Len(possibleExts) :
                          StatOk(Join(<<root, resolvedPath, <<"index">> \o possibleExts[i]>>),
                                 root, files)}
             first(S) == CHOOSE i \in S : \A j \in S : i <= j
         IN  IF direct # {} THEN resolvedPath \o possibleExts[first(direct)]
             ELSE IF index # {}
             THEN Join(<<resolvedPath, <<"index">> \o possibleExts[first(index)]>>)
             ELSE resolvedPath

\* A filter without the exception for configured aliases.
KeepsImportNoAliases(importPath, config) ==
    IF HasPrefix(importPath, <<"@">>) \/ ~Contains(importPath, <<Sep>>)
    THEN HasPrefix(importPath, <<Dot>>) \/ HasPrefix(importPath, <<Sep>>)
    ELSE TRUE

\* Lines 234-247: the specifier is kept.
KeepsImport(importPath, config) ==
    LET isAlias == \E alias \in DOMAIN config.Aliases :
                      \/ importPath = alias
                      \/ HasPrefix(importPath, alias \o <<Sep>>)
    IN  IF HasPrefix(importPath, <<"@">>) \/ ~Contains(importPath, <<Sep>>)
        THEN isAlias \/ HasPrefix(importPath, <<Dot>>) \/ HasPrefix(importPath, <<Sep>>)
        ELSE TRUE

\* Lines 252-284: from the path ResolveImportPath returned to the entry
\* appended to imports.
ImportEntry(resolved, root, files) ==
    LET r == Rel(root, resolved)
        relPath == IF r.ok THEN r.path ELSE resolved
    IN  AddExtension(relPath, root, files)

\* extractImports: the set of import lists a call can return (one per way
\* the alias ranges can fall out).
extractImports(content, dir, root, config, files) ==
    LET kept == SelectSeq(content.imports, LAMBDA ip : KeepsImport(ip, config))
        choices == {ch \in [1..Len(kept) -> UNION {ResolveImportPath(kept[i], config, root, dir)
                                                      : i \in 1..Len(kept)}] :
                      \A i \in 1..Len(kept) :
                         ch[i] \in ResolveImportPath(kept[i], config, root, dir)}
    IN  {[i \in 1..Len(kept) |-> ImportEntry(ch[i], root, files)] : ch \in choices}

\* Lines 133-148: the display name.
ComponentName(path, relPath, root) ==
    LET fileName == Base(path)
        fileNameWithoutExt == TrimSuffix(fileName, Ext(fileName))
        parentDir == Dir(relPath)
    IN  IF fileNameWithoutExt = <<"index">> /\ parentDir # <<Dot>>
        THEN Base(parentDir) \o <<Sep, "index">>
        ELSE fileNameWithoutExt

\* A parseFile that counts declarations whatever the role of the file.
parseFileCountsAnyRole(path, relPath, root, config, content, files) ==
    {[ID |-> relPath,
      Name |-> ComponentName(path, relPath, root),
      Path |-> relPath,
      Type |-> FileType(content, Base(path), relPath),
      MultipleComp |-> hasMultipleComponents(content),
      Imports |-> imports,
      ImportedBy |-> <<>>,
      Children |-> <<>>] :
        imports \in extractImports(content, Dir(relPath), root, config, files)}

\* parseFile on a readable file: the set of nodes a call can return.
parseFile(path, relPath, root, config, content, files) ==
    {[ID |-> relPath,
      Name |-> ComponentName(path, relPath, root),
      Path |-> relPath,
      Type |-> FileType(content, Base(path), relPath),
      MultipleComp |-> IF isComponentFile(content, Base(path))
                       THEN hasMultipleComponents(content) ELSE FALSE,
      Imports |-> imports,
      ImportedBy |-> <<>>,
      Children |-> <<>>] :
        imports \in extractImports(content, Dir(relPath), root, config, files)}

-----------------------------------------------------------------------------
(* Graph assembly (src/backend.go)                                         *)

NoStats == [TotalComponents |-> 0, MultiCompFiles |-> 0, ComponentFiles |-> 0,
            StateFiles |-> 0, UtilFiles |-> 0]

NoNodes == [id \in {} |-> <<>>]

\* Lines 52-61: the Project before the walk.
NewProject(root) ==
    [Root |-> [ID |-> <<"root">>, Name |-> Base(root), Path |-> root,
               Type |-> "root", MultipleComp |-> FALSE, Imports |-> <<>>,
               ImportedBy |-> <<>>, Children |-> <<>>],
     NodesMap |-> NoNodes,
     Files |-> <<>>,
     Stats |-> NoStats]

\* A registration that leaves stats.stateFiles alone.
RegisterUncountedState(proj, node) ==
    IF node.Name = <<>> THEN proj
    ELSE [proj EXCEPT
            !.NodesMap = [id \in (DOMAIN @) \cup {node.ID} |->
                            IF id = node.ID THEN node ELSE @[id]],
            !.Stats = [@ EXCEPT
                         !.TotalComponents = @ + 1,
                         !.ComponentFiles = IF node.Type = "component" THEN @ + 1 ELSE @,
                         !.MultiCompFiles = IF node.Type = "component" /\ node.MultipleComp
                                            THEN @ + 1 ELSE @,
                         !.UtilFiles = IF node.Type = "util" THEN @ + 1 ELSE @]]

\* Lines 86-101: registration of a parsed node and the stats update.
Register(proj, node) ==
    IF node.Name = <<>> THEN proj
    ELSE [proj EXCEPT
            !.NodesMap = [id \in (DOMAIN @) \cup {node.ID} |->
                            IF id = node.ID THEN node ELSE @[id]],
            !.Stats = [@ EXCEPT
                         !.TotalComponents = @ + 1,
                         !.ComponentFiles = IF node.Type = "component" THEN @ + 1 ELSE @,
                         !.MultiCompFiles = IF node.Type = "component" /\ node.MultipleComp
                                            THEN @ + 1 ELSE @,
                         !.StateFiles = IF node.Type = "state" THEN @ + 1 ELSE @,
                         !.UtilFiles = IF node.Type = "util" THEN @ + 1 ELSE @]]

\* buildRelationships recording an importer at most once per imported node.
RECURSIVE AddImportedByOnce(_, _, _, _)
AddImportedByOnce(nodesMap, id, imports, i) ==
    IF i > Len(imports) THEN nodesMap
    ELSE LET importPath == imports[i] IN
         IF /\ importPath \in DOMAIN nodesMap
            /\ \A j \in 1..Len(nodesMap[importPath].ImportedBy) :
                  nodesMap[importPath].ImportedBy[j] # id
         THEN AddImportedByOnce([nodesMap EXCEPT ![importPath].ImportedBy = Append(@, id)],
                                id, imports, i + 1)
         ELSE AddImportedByOnce(nodesMap, id, imports, i + 1)

\* Lines 295-300: the inner loop of buildRelationships for the node id,
\* from import i of the copy the range took.
RECURSIVE AddImportedBy(_, _, _, _)
AddImportedBy(nodesMap, id, imports, i) ==
    IF i > Len(imports) THEN nodesMap
    ELSE LET importPath == imports[i] IN
         IF importPath \in DOMAIN nodesMap
         THEN AddImportedBy([nodesMap EXCEPT ![importPath].ImportedBy = Append(@, id)],
                            id, imports, i + 1)
         ELSE AddImportedBy(nodesMap, id, imports, i + 1)

\* Lines 307-312: dirNodes, its lists in the order the range over NodesMap
\* (nodeOrder) meets the nodes.
DirKeys(nodesMap) == {Dir(nodesMap[id].Path) : id \in DOMAIN nodesMap}

GroupByDir(nodesMap, nodeOrder) ==
    [d \in DirKeys(nodesMap) |->
        LET ids == SelectSeq(nodeOrder, LAMBDA id : Dir(nodesMap[id].Path) = d)
        IN  [i \in 1..Len(ids) |-> nodesMap[ids[i]]]]

\* Line 329-332: nodeDir is taken for a direct subdirectory of dir.
IsDirectSubdir(nodeDir, dir) ==
    /\ nodeDir # dir
    /\ HasPrefix(nodeDir, dir)
    /\ LET relDir == TrimPrefix(nodeDir, dir) IN
       relDir # <<>> /\ ~Contains(TrimPrefix(relDir, <<Sep>>), <<Sep>>)

\* buildTreeRecursive: parent with the children of dir appended; dirOrder is
\* the order in which the ranges over dirNodes meet its keys.
RECURSIVE buildTreeRecursive(_, _, _, _)

\* A loop that also hangs an empty directory node for the key of the
\* directory it is building under that directory.
RECURSIVE AttachSubdirsAndSelf(_, _, _, _, _)
AttachSubdirsAndSelf(parent, dir, dirNodes, dirOrder, i) ==
    IF i > Len(dirOrder) THEN parent
    ELSE LET nodeDir == dirOrder[i]
             subdirNode == [ID |-> nodeDir, Name |-> Base(nodeDir), Path |-> nodeDir,
                            Type |-> "directory", MultipleComp |-> FALSE,
                            Imports |-> <<>>, ImportedBy |-> <<>>, Children |-> <<>>]
         IN  IF nodeDir = dir
             THEN AttachSubdirsAndSelf([parent EXCEPT !.Children = Append(@, subdirNode)],
                                       dir, dirNodes, dirOrder, i + 1)
             ELSE IF IsDirectSubdir(nodeDir, dir)
             THEN AttachSubdirsAndSelf(
                     [parent EXCEPT !.Children =
                         Append(@, buildTreeRecursive(subdirNode, nodeDir, dirNodes,
                                                      dirOrder))],
                     dir, dirNodes, dirOrder, i + 1)
             ELSE AttachSubdirsAndSelf(parent, dir, dirNodes, dirOrder, i + 1)

RECURSIVE AttachSubdirs(_, _, _, _, _)
AttachSubdirs(parent, dir, dirNodes, dirOrder, i) ==
    IF i > Len(dirOrder) THEN parent
    ELSE LET nodeDir == dirOrder[i] IN
         IF IsDirectSubdir(nodeDir, dir)
         THEN LET subdirNode == [ID |-> nodeDir, Name |-> Base(nodeDir), Path |-> nodeDir,
                                 Type |-> "directory", MultipleComp |-> FALSE,
                                 Imports |-> <<>>, ImportedBy |-> <<>>,
                                 Children |-> <<>>]
                  filled == buildTreeRecursive(subdirNode, nodeDir, dirNodes, dirOrder)
              IN  AttachSubdirs([parent EXCEPT !.Children = Append(@, filled)],
                                dir, dirNodes, dirOrder, i + 1)
         ELSE AttachSubdirs(parent, dir, dirNodes, dirOrder, i + 1)

buildTreeRecursive(parent, dir, dirNodes, dirOrder) ==
    LET withNodes == IF dir \in DOMAIN dirNodes
                     THEN [parent EXCEPT !.Children = @ \o dirNodes[dir]]
                     ELSE parent
    IN  AttachSubdirs(withNodes, dir, dirNodes, dirOrder, 1)

buildTree(proj, nodeOrder, dirOrder) ==
    [proj EXCEPT !.Root = buildTreeRecursive(@, <<>>, GroupByDir(proj.NodesMap, nodeOrder),
                                             dirOrder)]

\* All orders in which a range can meet the elements of S.
Orders(S) ==
    {o \in [1..Cardinality(S) -> S] : \A x \in S : \E i \in DOMAIN o : o[i] = x}

-----------------------------------------------------------------------------
(* Path normalisation (src/backend.go)                                     *)

ConvertToUnixPath(path) ==
    [i \in 1..Len(path) |-> IF path[i] = Backslash THEN Sep ELSE path[i]]

ConvertList(paths) == [i \in 1..Len(paths) |-> ConvertToUnixPath(paths[i])]

\* Lines 370-377 seen from the tree: a tree node is a struct copy of a
\* NodesMap value, so its Imports and ImportedBy slices share their backing
\* arrays with the map's node and are rewritten in place with them, while
\* its ID and Path strings are its own.  ConvertProjectPathsToUnix never
\* calls convertChildrenPaths on project.Root.
RECURSIVE ConvertSharedSlices(_)
ConvertSharedSlices(node) ==
    [node EXCEPT !.Imports = ConvertList(@),
                 !.ImportedBy = ConvertList(@),
                 !.Children = [i \in 1..Len(@) |-> ConvertSharedSlices(@[i])]]

\* convertChildrenPaths(&node): node with every descendant rewritten.
RECURSIVE convertChildrenPaths(_)
convertChildrenPaths(node) ==
    [node EXCEPT !.Children =
        [i \in 1..Len(@) |->
            convertChildrenPaths([@[i] EXCEPT !.ID = ConvertToUnixPath(@),
                                              !.Path = ConvertToUnixPath(@),
                                              !.Imports = ConvertList(@),
                                              !.ImportedBy = ConvertList(@)])]]

\* Lines 366-380: one NodesMap value rewritten.
ConvertNode(node) ==
    convertChildrenPaths([node EXCEPT !.ID = ConvertToUnixPath(@),
                                      !.Path = ConvertToUnixPath(@),
                                      !.Imports = ConvertList(@),
                                      !.ImportedBy = ConvertList(@)])

\* Line 355: the root of the emitted Project.
ConvertRoot(root) ==
    [ConvertSharedSlices(root) EXCEPT !.Path = ConvertToUnixPath(@)]

\* ConvertProjectPathsToUnix; winner[k] is the old key whose node the range
\* stores last under the new key k.
ConvertProjectPathsToUnix(proj, winner) ==
    [Root |-> ConvertRoot(proj.Root),
     Files |-> ConvertList(proj.Files),
     NodesMap |-> [k \in DOMAIN winner |-> ConvertNode(proj.NodesMap[winner[k]])],
     Stats |-> proj.Stats]

Winners(nodesMap) ==
    LET newKeys == {ConvertToUnixPath(id) : id \in DOMAIN nodesMap} IN
    {w \in [newKeys -> DOMAIN nodesMap] : \A k \in newKeys : ConvertToUnixPath(w[k]) = k}

-----------------------------------------------------------------------------
(* The scanned projects                                                    *)

MaxFiles == 3

RootDirs == { <<Sep, "p">> }

IndexJs   == <<"index", Dot, "js">>
SrcIndex  == <<"src", Sep, "index", Dot, "js">>
ButtonJsx == <<"src", Sep, "c", Sep, "B", Dot, "jsx">>
Src2File  == <<"src", "2", Sep, "b", Dot, "js">>
ModuleJs  == <<"node_modules", Sep, "a", Dot, "js">>
HiddenJs  == <<"src", Sep, Dot, "x", Sep, "a", Dot, "js">>
DistJs    == <<"src", Sep, "c", Sep, "dist", Sep, "a", Dot, "ts">>
NoNameJs  == <<Dot, "js">>
BackJs    == <<"x", Backslash, "b", Dot, "js">>
StyleCss  == <<"a", Dot, "css">>

CandidateFiles == {IndexJs, SrcIndex, ButtonJsx, Src2File, ModuleJs, HiddenJs,
                   DistJs, NoNameJs, BackJs, StyleCss}

\* The text of each file of the corpus.
Text(react, state, upper, imports) ==
    [importReact |-> react, returnParen |-> react, lt |-> react, selfClose |-> react,
     decl |-> TRUE, render |-> FALSE, return |-> react, stateWord |-> state,
     upperDecls |-> upper, imports |-> imports]

\* index.js: a component file declaring two components.
IndexText ==
    Text(TRUE, FALSE, 2, << <<Dot, Sep, "src", Sep, "c", Sep, "B">>,
                            <<Dot, Sep, "src">>,
                            <<Dot, Sep, "src", Sep, "c", Sep, "B">>,
                            <<"react">> >>)

\* src/index.js: helper code.
SrcIndexText ==
    Text(FALSE, FALSE, 0, << <<Dot, Dot, Sep, "index">>,
                             <<"@", "c", Sep, "B">>,
                             <<Sep, "x", Backslash, "b">> >>)

\* src/c/B.jsx: imports itself and the root index.
ButtonText ==
    Text(TRUE, FALSE, 1, << <<Dot, Sep, "B">>,
                            <<Dot, Dot, Sep, Dot, Dot, Sep, "index">> >>)

\* src2/b.js: a store module with two uppercase-named declarations.
Src2Text ==
    Text(FALSE, TRUE, 2, << <<"a", "b", Sep, "b">>,
                            <<Sep, "node_modules", Sep, "a">>,
                            <<Dot, Dot, Sep, "index">>,
                            <<"@", "c", Sep, "B">> >>)

\* x\b.js
BackText ==
    Text(FALSE, FALSE, 0, << <<Dot, Sep, "index">>, <<Dot, Sep, "index">> >>)

OtherText == Text(FALSE, FALSE, 0, << <<Sep, "index">> >>)

TextOf(f) ==
    CASE f = IndexJs -> IndexText
      [] f = SrcIndex -> SrcIndexText
      [] f = ButtonJsx -> ButtonText
      [] f = Src2File -> Src2Text
      [] f = BackJs -> BackText
      [] OTHER -> OtherText

Disks == {[f \in S |-> TextOf(f)] :
             S \in {T \in SUBSET CandidateFiles : Cardinality(T) <= MaxFiles}}

JsonFile(baseUrl, aliases) ==
    [exists |-> TRUE, readable |-> TRUE, valid |-> TRUE,
     hasBaseUrl |-> TRUE, baseUrl |-> baseUrl, aliases |-> aliases]

NoConfig == [cf \in {configFiles[i] : i \in 1..Len(configFiles)} |-> AbsentFile]

\* tsconfig.json: paths {"@c/*": ["src/c/*"]}, no baseUrl.
TsConfigSetup ==
    [NoConfig EXCEPT !["tsconfig.json"] =
        JsonFile(<<>>, [a \in {<<"@", "c">>} |-> <<"src", Sep, "c">>])]

\* webpack.config.js: alias {'a': 'src', 'ab': 'src2'}, no baseUrl.
WebpackSetup ==
    [NoConfig EXCEPT !["webpack.config.js"] =
        [exists |-> TRUE, readable |-> TRUE, valid |-> FALSE, hasBaseUrl |-> FALSE,
         baseUrl |-> <<>>,
         aliases |-> [a \in {<<"a">>, <<"a", "b">>} |->
                        IF a = <<"a">> THEN <<"src">> ELSE <<"src", "2">>]]]

ConfigSetups == {NoConfig, TsConfigSetup, WebpackSetup}

\* A file that os.Stat finds and os.ReadFile cannot read.
UnreadableFile == [AbsentFile EXCEPT !.exists = TRUE]

\* A readable file that json.Unmarshal rejects / that holds none of the
\* patterns parseJSConfig looks for.
MalformedFile == [AbsentFile EXCEPT !.exists = TRUE, !.readable = TRUE]

\* webpack.config.js: baseUrl: 'x', alias: {'a': 'src'}.
WebpackFile ==
    [exists |-> TRUE, readable |-> TRUE, valid |-> FALSE, hasBaseUrl |-> TRUE,
     baseUrl |-> <<"x">>, aliases |-> [a \in {<<"a">>} |-> <<"src">>]]

\* package.json: "alias": {"c": "/x"}, an absolute target.
PackageFile ==
    [exists |-> TRUE, readable |-> TRUE, valid |-> TRUE, hasBaseUrl |-> FALSE,
     baseUrl |-> <<>>, aliases |-> [a \in {<<"c">>} |-> <<Sep, "x">>]]

\* package.json alone: its alias target is an absolute path.
PackageSetup == [NoConfig EXCEPT !["package.json"] = PackageFile]

\* The configurations ResolveImportPath is called under.
ResolveSetups == ConfigSetups \cup {PackageSetup}

-----------------------------------------------------------------------------
(* GetProjectJSON as a state machine                                       *)

\* ~/.local/reactviz before anything was saved.
NoStore == [dir |-> FALSE, files |-> [n \in {} |-> <<>>]]

MaxClock == 1

\* The seconds time.Now() can fall into, as formatted by "20060102_150405".
Stamps == 0..MaxClock

\* Lines 434-440: the file name <projectName>_<timestamp>.json.
SaveFileName(root, now) == [project |-> Base(root), stamp |-> now]

\* saveProjectJSON without failure: os.MkdirAll creates the directory when
\* it is absent, os.WriteFile creates the file or truncates and rewrites the
\* one of that name.
saveProjectJSON(store, root, jsonData, now) ==
    LET filename == SaveFileName(root, now) IN
    [dir |-> TRUE,
     files |-> [n \in (DOMAIN store.files) \cup {filename} |->
                  IF n = filename THEN jsonData ELSE store.files[n]]]

NoFault == [kind |-> "none", at |-> <<>>]

Init ==
    /\ pc = "start"
    /\ rootDir \in RootDirs
    /\ disk \in Disks
    /\ cfgDisk \in ConfigSetups
    /\ aliasConfig = [BaseURL |-> <<>>, Aliases |-> NoAliases]
    /\ todo = <<>>
    /\ project = NewProject(rootDir)
    /\ relTodo = {}
    /\ err = "nil"
    /\ fault = NoFault
    /\ jsonOut = <<>>
    /\ saved = NoStore
    /\ probe = <<>>

\* The files of the tree below the directory entry e (<<>> is the root).
Below(e, files) ==
    IF e = <<>> THEN files ELSE {f \in files : HasPrefix(f, e \o <<Sep>>)}

ChildPath(e, name) == IF e = <<>> THEN name ELSE e \o <<Sep>> \o name

\* readDirNames: the sorted names in directory e.
ReadDirNames(e, files) ==
    SortStrings({Head(Split(IF e = <<>> THEN f ELSE SubSeq(f, Len(e) + 2, Len(f)))) :
                    f \in Below(e, files)})

IsDirEntry(e) == e \notin DOMAIN disk

\* A skip rule that forgets hidden directories.
SkipsDirNamedOnly(name) ==
    name \in {<<"node_modules">>, <<"build">>, <<"dist">>}

\* Lines 70-71: the directory is pruned.
SkipsDir(name) ==
    \/ name = <<"node_modules">>
    \/ name = <<"build">>
    \/ name = <<"dist">>
    \/ HasPrefix(name, <<Dot>>)

\* An identifier made of the file name alone.
RelPathBaseOnly(root, path) == Base(path)

\* Line 77: relPath, _ := filepath.Rel(rootDir, path)
RelPath(root, path) ==
    LET r == Rel(root, path) IN IF r.ok THEN r.path ELSE <<>>

\* Lines 47-61: the configuration is read and the Project created; Walk
\* starts at the root.
StartScan ==
    /\ pc = "start"
    /\ aliasConfig' = ReadProjectConfig(cfgDisk, Below(<<"src">>, DOMAIN disk) # {})
    /\ project' = NewProject(rootDir)
    /\ todo' = << <<>> >>
    /\ pc' = "walk"
    /\ UNCHANGED <<rootDir, disk, cfgDisk, relTodo, err, fault, jsonOut, saved, probe>>

\* Lines 65-67: Walk hands the callback an error (the root or an entry
\* cannot be statted, a directory cannot be listed); the scan aborts.
WalkError ==
    /\ pc = "walk" /\ todo # <<>>
    /\ fault' = [kind |-> "walk", at |-> Head(todo)]
    /\ err' = "walk"
    /\ todo' = <<>>
    /\ pc' = "scanned"
    /\ UNCHANGED <<rootDir, disk, cfgDisk, aliasConfig, project, relTodo, jsonOut,
                   saved, probe>>

\* Lines 70-73 and Walk's descent: the callback on a directory.
WalkDir ==
    /\ pc = "walk" /\ todo # <<>>
    /\ LET e == Head(todo)
           path == Join(<<rootDir, e>>)
       IN  /\ IsDirEntry(e)
           /\ IF SkipsDir(Base(path))
              THEN todo' = IF e = <<>> THEN <<>> ELSE Tail(todo)
              ELSE LET names == ReadDirNames(e, DOMAIN disk) IN
                   todo' = [i \in 1..Len(names) |-> ChildPath(e, names[i])] \o Tail(todo)
    /\ UNCHANGED <<pc, rootDir, disk, cfgDisk, aliasConfig, project, relTodo, err,
                   fault, jsonOut, saved, probe>>

\* Lines 76-102: the callback on a file that can be read.
WalkFile ==
    /\ pc = "walk" /\ todo # <<>>
    /\ LET e == Head(todo)
           path == Join(<<rootDir, e>>)
           relPath == RelPath(rootDir, path)
       IN  /\ ~IsDirEntry(e)
           /\ IF isReactFile(Base(path))
              THEN \E node \in parseFile(path, relPath, rootDir, aliasConfig, disk[e],
                                         DOMAIN disk) :
                      project' = Register([project EXCEPT !.Files = Append(@, relPath)],
                                          node)
              ELSE project' = project
    /\ todo' = Tail(todo)
    /\ UNCHANGED <<pc, rootDir, disk, cfgDisk, aliasConfig, relTodo, err, fault,
                   jsonOut, saved, probe>>

\* Lines 78-84 with parseFile's lines 127-130: os.ReadFile fails, parseFile
\* returns the error and the callback hands it to Walk.
ReadError ==
    /\ pc = "walk" /\ todo # <<>>
    /\ LET e == Head(todo)
           path == Join(<<rootDir, e>>)
       IN  /\ ~IsDirEntry(e)
           /\ isReactFile(Base(path))
           /\ project' = [project EXCEPT !.Files = Append(@, RelPath(rootDir, path))]
           /\ fault' = [kind |-> "read", at |-> e]
    /\ err' = "read"
    /\ todo' = <<>>
    /\ pc' = "scanned"
    /\ UNCHANGED <<rootDir, disk, cfgDisk, aliasConfig, relTodo, jsonOut, saved, probe>>

\* Lines 106-111: Walk returned nil; buildRelationships starts its range.
WalkDone ==
    /\ pc = "walk" /\ todo = <<>>
    /\ relTodo' = DOMAIN project.NodesMap
    /\ pc' = "relations"
    /\ UNCHANGED <<rootDir, disk, cfgDisk, aliasConfig, todo, project, err, fault,
                   jsonOut, saved, probe>>

\* Lines 294-301: one iteration of the range over NodesMap.
BuildRelationshipsStep ==
    /\ pc = "relations"
    /\ \E id \in relTodo :
          /\ project' = [project EXCEPT !.NodesMap =
                            AddImportedBy(@, id, project.NodesMap[id].Imports, 1)]
          /\ relTodo' = relTodo \ {id}
    /\ UNCHANGED <<pc, rootDir, disk, cfgDisk, aliasConfig, todo, err, fault, jsonOut,
                   saved, probe>>

\* Lines 114-116: buildTree, and ScanProject returns.
BuildTree ==
    /\ pc = "relations" /\ relTodo = {}
    /\ \E nodeOrder \in Orders(DOMAIN project.NodesMap),
          dirOrder \in Orders(DirKeys(project.NodesMap)) :
          project' = buildTree(project, nodeOrder, dirOrder)
    /\ pc' = "scanned"
    /\ UNCHANGED <<rootDir, disk, cfgDisk, aliasConfig, todo, relTodo, err, fault,
                   jsonOut, saved, probe>>

\* GetProjectJSON going on whatever ScanProject returned.
ScanFailedIgnored(e) == FALSE

\* Line 411: GetProjectJSON tests ScanProject's error.
ScanFailed(e) == e # "nil"

\* Lines 411-413.
ReturnScanError ==
    /\ pc = "scanned" /\ ScanFailed(err)
    /\ jsonOut' = <<>>
    /\ pc' = "done"
    /\ UNCHANGED <<rootDir, disk, cfgDisk, aliasConfig, todo, project, relTodo, err,
                   fault, saved, probe>>

\* Line 415.
ConvertPaths ==
    /\ pc = "scanned" /\ ~ScanFailed(err)
    /\ \E winner \in Winners(project.NodesMap) :
          project' = ConvertProjectPathsToUnix(project, winner)
    /\ pc' = "converted"
    /\ UNCHANGED <<rootDir, disk, cfgDisk, aliasConfig, todo, relTodo, err, fault,
                   jsonOut, saved, probe>>

\* Lines 417-428 with saveProjectJSON: the document is written and returned.
SaveJSON ==
    /\ pc = "converted"
    /\ jsonOut' = project
    /\ \E now \in Stamps : saved' = saveProjectJSON(saved, rootDir, project, now)
    /\ pc' = "done"
    /\ UNCHANGED <<rootDir, disk, cfgDisk, aliasConfig, todo, project, relTodo, err,
                   fault, probe>>

\* Lines 423-426: saveProjectJSON fails (no home directory, the directory
\* or the file cannot be written).
SaveError ==
    /\ pc = "converted"
    /\ fault' = [kind |-> "save", at |-> <<>>]
    /\ err' = "save"
    /\ jsonOut' = <<>>
    /\ pc' = "done"
    /\ UNCHANGED <<rootDir, disk, cfgDisk, aliasConfig, todo, project, relTodo, saved,
                   probe>>

Next ==
    \/ StartScan
    \/ WalkError
    \/ WalkDir
    \/ WalkFile
    \/ ReadError
    \/ WalkDone
    \/ BuildRelationshipsStep
    \/ BuildTree
    \/ ReturnScanError
    \/ ConvertPaths
    \/ SaveJSON
    \/ SaveError

Spec == Init /\ [][Next]_vars

-----------------------------------------------------------------------------
(* parseFile on its own: one file, every text                              *)

StoreUpper == <<"src", Sep, "store", Sep, "U", Dot, "js">>
StoreLower == <<"src", Sep, "store", Sep, "a", Dot, "ts">>

ParsePaths == {IndexJs, SrcIndex, ButtonJsx, Src2File, NoNameJs, StoreUpper, StoreLower}

\* Every combination of findings a text can produce: "return (" holds
\* "return", and a declaration with an uppercase name is a declaration.
AllTexts ==
    {t \in [importReact : BOOLEAN, returnParen : BOOLEAN, lt : BOOLEAN,
            selfClose : BOOLEAN, decl : BOOLEAN, render : BOOLEAN,
            return : BOOLEAN, stateWord : BOOLEAN, upperDecls : 0..2,
            imports : { << <<Dot, Sep, "b">>, <<"react">> >> }] :
        /\ t.returnParen => t.return
        /\ t.upperDecls > 0 => t.decl}

NoNode == <<>>

InitParse ==
    /\ pc = "parse"
    /\ rootDir \in RootDirs
    /\ \E f \in ParsePaths, t \in AllTexts :
          /\ disk = [g \in {f} |-> t]
          /\ probe = [relPath |-> f, node |-> NoNode]
    /\ cfgDisk = NoConfig
    /\ aliasConfig = [BaseURL |-> <<>>, Aliases |-> NoAliases]
    /\ todo = <<>>
    /\ project = NewProject(rootDir)
    /\ relTodo = {}
    /\ err = "nil"
    /\ fault = NoFault
    /\ jsonOut = <<>>
    /\ saved = NoStore

\* Line 81: node, err := parseFile(path, relPath, rootDir, aliasConfig)
ParseStep ==
    /\ pc = "parse"
    /\ \E node \in parseFile(Join(<<rootDir, probe.relPath>>), probe.relPath, rootDir,
                             aliasConfig, disk[probe.relPath], DOMAIN disk) :
          probe' = [probe EXCEPT !.node = node]
    /\ pc' = "parsed"
    /\ UNCHANGED <<rootDir, disk, cfgDisk, aliasConfig, todo, project, relTodo, err,
                   fault, jsonOut, saved>>

SpecParse == InitParse /\ [][ParseStep]_vars

-----------------------------------------------------------------------------
(* ResolveImportPath on its own: the same call made repeatedly             *)

MaxCalls == 2

ResolveSpecifiers ==
    { <<Dot, Sep, "b">>, <<Dot, Dot, Sep, "index">>, <<Sep, "src", Sep, "c", Sep, "B">>,
      <<"@", "c", Sep, "B">>, <<"a", "b", Sep, "b">>, <<"a", Sep, "b">>, <<"c", Sep, "B">>,
      <<"react">> }

ResolveDirs == { <<Dot>>, <<"src">>, <<"src", Sep, "c">> }

InitResolve ==
    /\ pc = "resolve"
    /\ rootDir \in RootDirs
    /\ disk \in {[f \in S |-> TextOf(f)] : S \in {{}, {SrcIndex}, {Src2File}}}
    /\ cfgDisk \in ResolveSetups
    /\ aliasConfig = ReadProjectConfig(cfgDisk, Below(<<"src">>, DOMAIN disk) # {})
    /\ \E ip \in ResolveSpecifiers, d \in ResolveDirs :
          probe = [importPath |-> ip, currentDir |-> d, results |-> <<>>]
    /\ todo = <<>>
    /\ project = NewProject(rootDir)
    /\ relTodo = {}
    /\ err = "nil"
    /\ fault = NoFault
    /\ jsonOut = <<>>
    /\ saved = NoStore

\* Line 250: resolvedPath := ResolveImportPath(importPath, aliasConfig, rootDir, dir)
ResolveStep ==
    /\ pc = "resolve"
    /\ Len(probe.results) < MaxCalls
    /\ \E r \in ResolveImportPath(probe.importPath, aliasConfig, rootDir, probe.currentDir) :
          probe' = [probe EXCEPT !.results = Append(@, r)]
    /\ UNCHANGED <<pc, rootDir, disk, cfgDisk, aliasConfig, todo, project, relTodo, err,
                   fault, jsonOut, saved>>

SpecResolve == InitResolve /\ [][ResolveStep]_vars

-----------------------------------------------------------------------------
(* Properties of the scan                                                  *)

Count(seq, x) == Cardinality({i \in DOMAIN seq : seq[i] = x})

Elems(seq) == {seq[i] : i \in DOMAIN seq}

\* ScanProject has run buildRelationships and not yet handed the Project on.
RelationshipsBuilt ==
    \/ pc = "relations" /\ relTodo = {}
    \/ pc = "scanned" /\ err = "nil"

\* ScanProject has returned a Project without error.
ScanReturned == pc = "scanned" /\ err = "nil"

\* C1: once buildRelationships has run, for all registered nodes N and T the
\* id of N occurs in T.importedBy exactly as often as the id of T occurs in
\* N.imports; every importedBy entry is a key of nodesMap, so an import that
\* is no key of nodesMap adds no importedBy entry anywhere.
C1_ReverseEdgesMatchImports ==
    RelationshipsBuilt =>
        LET nodes == project.NodesMap IN
        /\ \A n \in DOMAIN nodes : \A t \in DOMAIN nodes :
              Count(nodes[t].ImportedBy, n) = Count(nodes[n].Imports, t)
        /\ \A t \in DOMAIN nodes : Elems(nodes[t].ImportedBy) \subseteq DOMAIN nodes

\* A node imports a registered node twice and also holds a dangling import.
C1_Witness ==
    /\ RelationshipsBuilt
    /\ \E n \in DOMAIN project.NodesMap :
          /\ \E t \in DOMAIN project.NodesMap : Count(project.NodesMap[n].Imports, t) = 2
          /\ \E i \in DOMAIN project.NodesMap[n].Imports :
                project.NodesMap[n].Imports[i] \notin DOMAIN project.NodesMap

\* The file nodes with identifier id among the descendants of node.
RECURSIVE Occurrences(_, _)
RECURSIVE SumOccurrences(_, _, _)
SumOccurrences(children, id, i) ==
    IF i > Len(children) THEN 0
    ELSE Occurrences(children[i], id) + SumOccurrences(children, id, i + 1)

Occurrences(node, id) ==
    (IF node.Type \notin {"directory", "root"} /\ node.ID = id THEN 1 ELSE 0)
    + SumOccurrences(node.Children, id, 1)

\* C2: after buildTree every node registered in nodesMap appears exactly once
\* among the descendants of project.Root, whatever the set of scanned paths.
C2_EveryNodeOnceInTree ==
    ScanReturned =>
        \A id \in DOMAIN project.NodesMap : Occurrences(project.Root, id) = 1

\* What is left of a file name without its extension.
NameWithoutExt(f) == TrimSuffix(Base(f), Ext(Base(f)))

\* C3: when ScanProject returns its Project, nodesMap holds exactly one entry
\* for each entry of files whose display name is non-empty, keyed by the
\* file's project-relative path with node.id equal to the key; no two scanned
\* files share an identifier and every key of nodesMap is an entry of files.
C3_OneEntryPerNamedFile ==
    ScanReturned =>
        /\ DOMAIN project.NodesMap =
              {f \in Elems(project.Files) : NameWithoutExt(f) # <<>>}
        /\ \A k \in DOMAIN project.NodesMap :
              project.NodesMap[k].ID = k /\ k \in DOMAIN disk
        /\ \A i, j \in DOMAIN project.Files :
              project.Files[i] = project.Files[j] => i = j

\* A scan that met a file without a name and two files named index.
C3_Witness ==
    /\ ScanReturned
    /\ Elems(project.Files) = {NoNameJs, IndexJs, SrcIndex}
    /\ DOMAIN project.NodesMap = {IndexJs, SrcIndex}

\* The file lies beneath a directory named node_modules, build or dist, or
\* beneath a directory whose name begins with a dot.
BeneathPrunedDir(f) ==
    LET segs == Split(f) IN
    \E i \in 1..(Len(segs) - 1) :
        \/ segs[i] \in {<<"node_modules">>, <<"build">>, <<"dist">>}
        \/ (segs[i] # <<>> /\ Head(segs[i]) = Dot)

\* C4: no file beneath a directory named node_modules, build or dist, or
\* beneath a directory whose name begins with '.', at any depth below the
\* root, appears in files, as a key of nodesMap or in an importedBy list.
C4_PrunedFilesNeverAppear ==
    \A f \in DOMAIN disk :
        BeneathPrunedDir(f) =>
            /\ f \notin Elems(project.Files)
            /\ f \notin DOMAIN project.NodesMap
            /\ \A k \in DOMAIN project.NodesMap :
                  f \notin Elems(project.NodesMap[k].ImportedBy)

\* A finished scan of a tree with node_modules at the root and dist two
\* levels down, next to a registered file whose import resolves into
\* node_modules.
C4_Witness ==
    /\ pc = "done" /\ err = "nil"
    /\ DOMAIN disk = {ModuleJs, DistJs, Src2File}
    /\ DOMAIN project.NodesMap = {Src2File}
    /\ ModuleJs \in Elems(project.NodesMap[Src2File].Imports)

NoBackslash(path) == \A i \in DOMAIN path : path[i] # Backslash

RECURSIVE TreeHasNoBackslash(_)
TreeHasNoBackslash(node) ==
    /\ NoBackslash(node.ID)
    /\ NoBackslash(node.Path)
    /\ \A p \in Elems(node.Imports) \cup Elems(node.ImportedBy) : NoBackslash(p)
    /\ \A i \in DOMAIN node.Children : TreeHasNoBackslash(node.Children[i])

\* C6: after ConvertProjectPathsToUnix no path-like field of the emitted
\* Project holds a backslash: the root path, the files entries, the keys of
\* nodesMap, id, path, imports and importedBy of its nodes, and the same
\* fields of every node reachable through root.children.
C6_NoBackslashAnywhere ==
    pc \in {"converted", "done"} /\ err = "nil" =>
        /\ NoBackslash(project.Root.Path)
        /\ \A f \in Elems(project.Files) : NoBackslash(f)
        /\ \A k \in DOMAIN project.NodesMap :
              NoBackslash(k) /\ TreeHasNoBackslash(project.NodesMap[k])
        /\ \A i \in DOMAIN project.Root.Children :
              TreeHasNoBackslash(project.Root.Children[i])

\* The eligible files of the tree that lie in no pruned directory.
WalkedFiles == {f \in DOMAIN disk : isReactFile(Base(f)) /\ ~BeneathPrunedDir(f)}

\* C8: when one eligible file cannot be read, ScanProject skips that file's
\* node and goes on: it returns without error and every other eligible file
\* is registered in nodesMap.
C8_UnreadableFileIsSkipped ==
    pc \in {"scanned", "done"} /\ fault.kind = "read" =>
        /\ err = "nil"
        /\ \A f \in WalkedFiles \ {fault.at} :
              NameWithoutExt(f) # <<>> => f \in DOMAIN project.NodesMap

\* C9: if the root cannot be statted or the walk reports an error,
\* ScanProject returns that error, and GetProjectJSON returns it with an
\* empty document and writes no file.
C9_WalkErrorSurfaces ==
    fault.kind = "walk" =>
        /\ pc \in {"scanned", "done"}
        /\ err = "walk"
        /\ jsonOut = <<>>
        /\ saved = NoStore

\* GetProjectJSON has returned after the walk failed below the root, with a
\* file already scanned.
C9_Witness ==
    /\ pc = "done"
    /\ fault.kind = "walk" /\ fault.at # <<>>
    /\ project.Files # <<>>

-----------------------------------------------------------------------------
(* Properties of ResolveImportPath and parseFile                           *)

\* C5: ResolveImportPath is deterministic: for a fixed specifier, config,
\* project directory and current directory every evaluation returns the same
\* path, also when two or more aliases prefix-match the specifier.
C5_ResolveIsDeterministic ==
    \A i \in DOMAIN probe.results : \A j \in DOMAIN probe.results :
        probe.results[i] = probe.results[j]

\* C7: a file whose text or project-relative path matches a state-management
\* signature gets the role state, whatever component signals it carries.
C7_StateSignatureWins ==
    pc = "parsed" /\ isStateFile(disk[probe.relPath], probe.relPath) =>
        probe.node.Type = "state"

\* C10: a node is named by its file's base name without extension, except
\* that an index file in the project root is named after the root folder and
\* an index file elsewhere is named <parent-directory-name>/index.
C10_DisplayName ==
    pc = "parsed" =>
        probe.node.Name =
            IF NameWithoutExt(probe.relPath) # <<"index">>
            THEN NameWithoutExt(probe.relPath)
            ELSE IF Dir(probe.relPath) = <<Dot>>
            THEN Base(rootDir)
            ELSE Base(Dir(probe.relPath)) \o <<Sep, "index">>

-----------------------------------------------------------------------------
(* Properties of the tree buildTree hangs under project.Root               *)

\* The node itself and every node below it.
RECURSIVE TreeNodes(_)
TreeNodes(node) ==
    {node} \cup UNION {TreeNodes(node.Children[i]) : i \in DOMAIN node.Children}

\* The file node id is a direct child of parent.
IsChildOf(parent, id) ==
    \E i \in DOMAIN parent.Children :
        parent.Children[i].Type \notin {"directory", "root"} /\ parent.Children[i].ID = id

\* C11: buildTree attaches every node whose file lies directly in the
\* project root as a direct child of project.Root, and every other node as a
\* direct child of the directory node whose path is the node's own directory.
C11_NodesAttachToOwnDirectory ==
    ScanReturned =>
        \A id \in DOMAIN project.NodesMap :
            LET nodeDir == Dir(project.NodesMap[id].Path) IN
            IF nodeDir = <<Dot>>
            THEN IsChildOf(project.Root, id)
            ELSE \E d \in TreeNodes(project.Root) :
                    d.Type = "directory" /\ d.Path = nodeDir /\ IsChildOf(d, id)

\* The directory nodes with path d among the descendants of node.
RECURSIVE DirOccurrences(_, _)
RECURSIVE SumDirOccurrences(_, _, _)
SumDirOccurrences(children, d, i) ==
    IF i > Len(children) THEN 0
    ELSE DirOccurrences(children[i], d) + SumDirOccurrences(children, d, i + 1)

DirOccurrences(node, d) ==
    (IF node.Type = "directory" /\ node.Path = d THEN 1 ELSE 0)
    + SumDirOccurrences(node.Children, d, 1)

\* d is prefix, a separator and exactly one more segment (one segment alone
\* under the empty prefix of the root).
IsSingleLevelBelow(d, prefix) ==
    LET rest == IF prefix = <<>> THEN d
                ELSE IF HasPrefix(d, prefix \o <<Sep>>)
                THEN TrimPrefix(d, prefix \o <<Sep>>) ELSE <<>>
    IN  rest # <<>> /\ ~Contains(rest, <<Sep>>)

\* C12: a directory node for the key D hangs under the node built for the
\* prefix P only when D is P, a separator and exactly one more segment, so a
\* directory that only shares a string prefix with P (src2 against src) never
\* hangs under P; and each directory key has at most one directory node in
\* the whole tree.
C12_OnlySingleLevelDescendants ==
    ScanReturned =>
        /\ \A p \in TreeNodes(project.Root) : \A i \in DOMAIN p.Children :
              p.Children[i].Type = "directory" =>
                 IsSingleLevelBelow(p.Children[i].Path,
                                    IF p.Type = "root" THEN <<>> ELSE p.Path)
        /\ \A d \in DirKeys(project.NodesMap) : DirOccurrences(project.Root, d) <= 1

-----------------------------------------------------------------------------
(* ReadProjectConfig on its own (src/unnamed/part_004)                     *)

\* The configuration files a project root can hold.
ConfigDisks ==
    {[NoConfig EXCEPT !["jsconfig.json"] = js, !["tsconfig.json"] = ts,
                      !["webpack.config.js"] = wp, !["package.json"] = pk] :
        js \in {AbsentFile, UnreadableFile, MalformedFile,
                JsonFile(<<>>, [a \in {<<"@", "c">>} |-> <<"src", Sep, "c">>])},
        ts \in {AbsentFile, MalformedFile,
                JsonFile(<<Dot>>, [a \in {<<"a">>} |-> <<"src", "2">>])},
        wp \in {AbsentFile, UnreadableFile, WebpackFile},
        pk \in {AbsentFile, MalformedFile, PackageFile}}

InitConfig ==
    /\ pc = "config"
    /\ rootDir \in RootDirs
    /\ disk \in {[f \in S |-> TextOf(f)] : S \in {{}, {SrcIndex}, {IndexJs}}}
    /\ cfgDisk \in ConfigDisks
    /\ aliasConfig = [BaseURL |-> <<>>, Aliases |-> NoAliases]
    /\ todo = <<>>
    /\ project = NewProject(rootDir)
    /\ relTodo = {}
    /\ err = "unset"
    /\ fault = NoFault
    /\ jsonOut = <<>>
    /\ saved = NoStore
    /\ probe = <<>>

\* Line 48: aliasConfig, err := ReadProjectConfig(rootDir); both of its
\* return statements hand back a nil error.
ReadConfigStep ==
    /\ pc = "config"
    /\ aliasConfig' = ReadProjectConfig(cfgDisk, Below(<<"src">>, DOMAIN disk) # {})
    /\ err' = "nil"
    /\ pc' = "configured"
    /\ UNCHANGED <<rootDir, disk, cfgDisk, todo, project, relTodo, fault, jsonOut, saved,
                   probe>>

SpecConfig == InitConfig /\ [][ReadConfigStep]_vars

-----------------------------------------------------------------------------
(* Properties of ReadProjectConfig                                         *)

CandidateNames == {configFiles[i] : i \in 1..Len(configFiles)}

\* The candidate is read and parsed successfully.
ReadAndParsed(files, cf) ==
    /\ files[cf].exists
    /\ files[cf].readable
    /\ ConfigExt(cf) = ".json" => files[cf].valid

\* C13: ReadProjectConfig never returns a non-nil error, and whenever no
\* candidate is read and parsed successfully (each is absent, unreadable or
\* malformed) it returns an empty alias map and the baseUrl "src" if a src
\* directory exists at the root and "" otherwise.
C13_DefaultsWhenNothingParses ==
    pc = "configured" =>
        /\ err = "nil"
        /\ (\A cf \in CandidateNames : ~ReadAndParsed(cfgDisk, cf)) =>
              /\ aliasConfig.Aliases = NoAliases
              /\ aliasConfig.BaseURL = IF Below(<<"src">>, DOMAIN disk) # {}
                                       THEN <<"src">> ELSE <<>>

\* C14: the candidates are consulted in the order of configFiles and the
\* returned baseUrl and aliases are those of the first JSON candidate that
\* parses successfully; a JSON candidate that exists and fails to parse does
\* not end the search.
C14_FirstParsingJsonCandidateWins ==
    pc = "configured" =>
        LET parsing == {i \in 1..Len(configFiles) :
                          ConfigExt(configFiles[i]) = ".json"
                          /\ ReadAndParsed(cfgDisk, configFiles[i])}
        IN  parsing # {} =>
               LET first == CHOOSE i \in parsing : \A j \in parsing : i <= j
                   file == cfgDisk[configFiles[first]]
               IN  /\ aliasConfig.Aliases = file.aliases
                   /\ configFiles[first] # "package.json" =>
                         aliasConfig.BaseURL = file.baseUrl

-----------------------------------------------------------------------------
(* Properties of ResolveImportPath's priority order                        *)

\* What is left of the specifier after the alias, without a leading
\* separator.
AfterAlias(importPath, alias) ==
    LET trimmed == TrimPrefix(importPath, alias)
    IN  IF HasPrefix(trimmed, <<Sep>>) THEN SubSeq(trimmed, 2, Len(trimmed)) ELSE trimmed

\* The directory non-relative specifiers are resolved under.
BaseDir(config, projectDir) ==
    IF config.BaseURL # <<>> THEN Join(<<projectDir, config.BaseURL>>) ELSE projectDir

MatchingAliases(importPath, config) ==
    {a \in DOMAIN config.Aliases : HasPrefix(importPath, a)}

\* The path the rules of C15 give for a specifier no alias matches.
ExpectedWithoutAlias(importPath, config, projectDir, currentDir) ==
    IF HasPrefix(importPath, <<Dot>>) THEN Join(<<currentDir, importPath>>)
    ELSE IF HasPrefix(importPath, <<Sep>>) THEN Join(<<projectDir, importPath>>)
    ELSE Join(<<BaseDir(config, projectDir), importPath>>)

AliasRuleApplies(importPath, config) ==
    /\ ~HasPrefix(importPath, <<Dot>>)
    /\ ~HasPrefix(importPath, <<Sep>>)
    /\ MatchingAliases(importPath, config) # {}

\* C15 as stated: ResolveImportPath returns a path for every input; a
\* specifier starting with '.' is joined onto the current file's directory,
\* one starting with '/' onto the project root; otherwise a prefix-matching
\* alias has its prefix replaced by its target and the result joined under
\* projectRoot/baseUrl when baseUrl is set and under projectRoot otherwise;
\* otherwise the specifier is joined under projectRoot/baseUrl when baseUrl
\* is set, and under projectRoot otherwise.
C15_Original ==
    \A i \in DOMAIN probe.results :
        LET r == probe.results[i]
            ip == probe.importPath
        IN  /\ r # <<>>
            /\ IF AliasRuleApplies(ip, aliasConfig)
               THEN \E a \in MatchingAliases(ip, aliasConfig) :
                       r = Join(<<BaseDir(aliasConfig, rootDir), aliasConfig.Aliases[a],
                                  AfterAlias(ip, a)>>)
               ELSE r = ExpectedWithoutAlias(ip, aliasConfig, rootDir, probe.currentDir)

\* C15 (amended): as C15, except that an alias whose target is an absolute
\* path resolves to that target joined with the rest of the specifier,
\* whatever projectRoot and baseUrl are.
C15_PriorityOrder ==
    \A i \in DOMAIN probe.results :
        LET r == probe.results[i]
            ip == probe.importPath
        IN  /\ r # <<>>
            /\ IF AliasRuleApplies(ip, aliasConfig)
               THEN \E a \in MatchingAliases(ip, aliasConfig) :
                       LET target == aliasConfig.Aliases[a] IN
                       r = IF IsAbs(target) THEN Join(<<target, AfterAlias(ip, a)>>)
                           ELSE Join(<<BaseDir(aliasConfig, rootDir), target,
                                       AfterAlias(ip, a)>>)
               ELSE r = ExpectedWithoutAlias(ip, aliasConfig, rootDir, probe.currentDir)

\* The specifier c/B has been resolved through the alias c, whose target /x
\* is absolute, under a project root other than /.
C15_Witness ==
    /\ Len(probe.results) = MaxCalls
    /\ probe.importPath = <<"c", Sep, "B">>
    /\ <<"c">> \in DOMAIN aliasConfig.Aliases
    /\ IsAbs(aliasConfig.Aliases[<<"c">>])
    /\ probe.results[1] = <<Sep, "x", Sep, "B">>

-----------------------------------------------------------------------------
(* extractImports on its own (src/backend.go)                              *)

MaxImports == 2

\* The importing file lies in src/c.
ExtractDir == <<"src", Sep, "c">>

\* Specifiers the import pattern can match in a text.
ExtractSpecifiers ==
    { <<Dot, Sep, "B">>, <<Dot>>, <<"react">>, <<"@", "c", Sep, "B">>, <<"a", "b">> }

ImportLists ==
    UNION {[1..n -> ExtractSpecifiers] : n \in 0..MaxImports}

\* The files the probe of src/c/B can find.
ProbeFiles ==
    { ButtonJsx, <<"src", Sep, "c", Sep, "B", Dot, "tsx">>,
      <<"src", Sep, "c", Sep, "B", Sep, "index", Dot, "js">>,
      <<"src", Sep, "c", Sep, "B", Sep, "index", Dot, "tsx">> }

ProbeDisks ==
    {[f \in S |-> OtherText] : S \in SUBSET ProbeFiles}

InitExtract ==
    /\ pc = "extract"
    /\ rootDir \in RootDirs
    /\ disk \in ProbeDisks
    /\ cfgDisk \in ConfigSetups
    /\ aliasConfig = ReadProjectConfig(cfgDisk, Below(<<"src">>, DOMAIN disk) # {})
    /\ \E l \in ImportLists :
          probe = [content |-> Text(FALSE, FALSE, 0, l), dir |-> ExtractDir,
                   imports |-> <<>>]
    /\ todo = <<>>
    /\ project = NewProject(rootDir)
    /\ relTodo = {}
    /\ err = "nil"
    /\ fault = NoFault
    /\ jsonOut = <<>>
    /\ saved = NoStore

\* Line 169: node.Imports = extractImports(fileContent, filepath.Dir(relPath),
\* rootDir, aliasConfig)
ExtractStep ==
    /\ pc = "extract"
    /\ \E imports \in extractImports(probe.content, probe.dir, rootDir, aliasConfig,
                                     DOMAIN disk) :
          probe' = [probe EXCEPT !.imports = imports]
    /\ pc' = "extracted"
    /\ UNCHANGED <<rootDir, disk, cfgDisk, aliasConfig, todo, project, relTodo, err,
                   fault, jsonOut, saved>>

SpecExtract == InitExtract /\ [][ExtractStep]_vars

-----------------------------------------------------------------------------
(* Properties of extractImports                                            *)

\* The specifier counts as an external package and is dropped.
DroppedSpecifier(importPath, config) ==
    /\ ~Contains(importPath, <<Sep>>) \/ importPath[1] = "@"
    /\ importPath \notin DOMAIN config.Aliases
    /\ \A alias \in DOMAIN config.Aliases : ~HasPrefix(importPath, alias \o <<Sep>>)
    /\ importPath[1] \notin {Dot, Sep}

\* The matched specifiers that are not dropped, in order of appearance.
KeptSpecifiers(imports, config) ==
    SelectSeq(imports, LAMBDA ip : ~DroppedSpecifier(ip, config))

\* The project-relative paths the specifier can resolve to, before the
\* extension probe.
ResolvedRelPaths(importPath) ==
    {LET rel == Rel(rootDir, r) IN IF rel.ok THEN rel.path ELSE r :
        r \in ResolveImportPath(importPath, aliasConfig, rootDir, probe.dir)}

\* C16: extractImports drops a matched specifier exactly when it (contains no
\* '/' or starts with '@') and neither equals a configured alias, nor starts
\* with an alias followed by '/', nor starts with '.' or '/'; every other
\* matched specifier yields exactly one entry of imports, in order of
\* appearance, duplicates kept.
C16_DropsExternalPackagesOnly ==
    pc = "extracted" =>
        LET kept == KeptSpecifiers(probe.content.imports, aliasConfig) IN
        /\ Len(probe.imports) = Len(kept)
        /\ \A k \in DOMAIN kept :
              \E q \in ResolvedRelPaths(kept[k]) :
                 probe.imports[k] = ImportEntry(Join(<<rootDir, q>>), rootDir, DOMAIN disk)

\* The text imports @c/B and react, @c/B twice, or react and ab, under a
\* configuration that holds the alias: react is dropped and the alias imports
\* are kept.
C16_Witness ==
    /\ pc = "extracted"
    /\ \/ /\ <<"@", "c">> \in DOMAIN aliasConfig.Aliases
          /\ probe.content.imports \in
                { << <<"@", "c", Sep, "B">>, <<"react">> >>,
                  << <<"@", "c", Sep, "B">>, <<"@", "c", Sep, "B">> >> }
       \/ /\ <<"a", "b">> \in DOMAIN aliasConfig.Aliases
          /\ probe.content.imports = << <<"react">>, <<"a", "b">> >>
    /\ Len(probe.imports) = Len(probe.content.imports)
                            - Count(probe.content.imports, <<"react">>)

\* os.Stat finds the project-relative path.
Exists(relPath) ==
    \E f \in DOMAIN disk : Join(<<rootDir, f>>) = Join(<<rootDir, relPath>>)

\* The candidates of the probe in the order they are tried.
ProbeCandidates(q) ==
    [i \in 1..8 |->
        IF i <= 4 THEN q \o possibleExts[i]
        ELSE Join(<<q, <<"index">> \o possibleExts[i - 4]>>)]

\* The entry C17 expects for the project-relative path q.
ExpectedEntry(q) ==
    IF Ext(Base(q)) # <<>> THEN q
    ELSE LET found == {i \in 1..8 : Exists(ProbeCandidates(q)[i])} IN
         IF found = {} THEN q
         ELSE ProbeCandidates(q)[CHOOSE i \in found : \A j \in found : i <= j]

\* C17: when the base name of a resolved path has no extension the entry is
\* the first existing candidate among path.js, path.jsx, path.ts, path.tsx,
\* path/index.js, path/index.jsx, path/index.ts, path/index.tsx in this
\* order, so a direct file wins over a directory index; when no candidate
\* exists the entry is the extension-less path.
C17_FirstExistingCandidate ==
    pc = "extracted" =>
        LET kept == KeptSpecifiers(probe.content.imports, aliasConfig) IN
        /\ Len(probe.imports) = Len(kept)
        /\ \A k \in DOMAIN kept :
              \E q \in ResolvedRelPaths(kept[k]) : probe.imports[k] = ExpectedEntry(q)

\* src/c/B.tsx and src/c/B/index.js both exist: ./B becomes src/c/B.tsx; and
\* "." finds no candidate and stays src/c.
C17_Witness ==
    /\ pc = "extracted"
    /\ DOMAIN disk = { <<"src", Sep, "c", Sep, "B", Dot, "tsx">>,
                       <<"src", Sep, "c", Sep, "B", Sep, "index", Dot, "js">> }
    /\ probe.content.imports = << <<Dot, Sep, "B">>, <<Dot>> >>
    /\ probe.imports = << <<"src", Sep, "c", Sep, "B", Dot, "tsx">>, <<"src", Sep, "c">> >>

-----------------------------------------------------------------------------
(* Properties of a scan: alias imports and statistics                      *)

\* C18: in a project whose only configuration is a tsconfig.json mapping
\* @c/* to src/c/* and which holds src/c/B.jsx and no src/c/B.js, an import
\* of @c/B in a registered file F puts src/c/B.jsx into F.imports and the id
\* of F into the importedBy of the node src/c/B.jsx.
C18_AliasImportReachesButton ==
    /\ RelationshipsBuilt
    /\ cfgDisk = TsConfigSetup
    /\ ButtonJsx \in DOMAIN disk
    /\ <<"src", Sep, "c", Sep, "B", Dot, "js">> \notin DOMAIN disk
    => \A F \in DOMAIN project.NodesMap :
          <<"@", "c", Sep, "B">> \in Elems(disk[F].imports) =>
             /\ ButtonJsx \in Elems(project.NodesMap[F].Imports)
             /\ ButtonJsx \in DOMAIN project.NodesMap
             /\ F \in Elems(project.NodesMap[ButtonJsx].ImportedBy)

\* src/index.js and src2/b.js both import @c/B under the tsconfig alias and
\* are recorded as importers of src/c/B.jsx.
C18_Witness ==
    /\ RelationshipsBuilt
    /\ cfgDisk = TsConfigSetup
    /\ DOMAIN disk = {SrcIndex, Src2File, ButtonJsx}
    /\ {SrcIndex, Src2File} \subseteq Elems(project.NodesMap[ButtonJsx].ImportedBy)

\* C19: after every scan stats.totalComponents is the number of entries of
\* nodesMap and the sum of componentFiles, stateFiles and utilFiles, and
\* every registered node has exactly one of the roles component, state and
\* util.
C19_TotalsAgree ==
    ScanReturned =>
        LET stats == project.Stats IN
        /\ stats.TotalComponents = Cardinality(DOMAIN project.NodesMap)
        /\ stats.TotalComponents = stats.ComponentFiles + stats.StateFiles + stats.UtilFiles
        /\ \A id \in DOMAIN project.NodesMap :
              project.NodesMap[id].Type \in {"component", "state", "util"}

\* A scan that registered a component, a state file and a utility file.
C19_Witness ==
    /\ ScanReturned
    /\ project.Stats.TotalComponents = 3
    /\ \A t \in {"component", "state", "util"} :
          \E id \in DOMAIN project.NodesMap : project.NodesMap[id].Type = t

\* C20: stats.multiCompFiles is the number of registered nodes whose
\* multipleComp is true; multipleComp is true only on component nodes whose
\* text counts more than one uppercase-named declaration, so multiCompFiles
\* never exceeds componentFiles.
C20_MultiCompCount ==
    ScanReturned =>
        LET nodes == project.NodesMap IN
        /\ project.Stats.MultiCompFiles
              = Cardinality({id \in DOMAIN nodes : nodes[id].MultipleComp})
        /\ \A id \in DOMAIN nodes :
              nodes[id].MultipleComp =>
                 nodes[id].Type = "component" /\ disk[id].upperDecls > 1
        /\ project.Stats.MultiCompFiles <= project.Stats.ComponentFiles

\* index.js is a component with two declarations, src2/b.js a state file
\* with two and src/c/B.jsx a component with one: one file is counted.
C20_Witness ==
    /\ ScanReturned
    /\ DOMAIN project.NodesMap = {IndexJs, Src2File, ButtonJsx}
    /\ project.NodesMap[IndexJs].MultipleComp
    /\ ~project.NodesMap[Src2File].MultipleComp
    /\ project.Stats.MultiCompFiles = 1
    /\ project.Stats.ComponentFiles = 2

-----------------------------------------------------------------------------
(* Successive GetProjectJSON calls and the files they save (src/backend.go) *)

MaxSaves == 3

\* Project directories: /p and /x/p share their base name.
SaveRoots == { <<Sep, "p">>, <<Sep, "x", Sep, "p">>, <<Sep, "b">> }

\* The documents json.MarshalIndent can hand to saveProjectJSON: the tree
\* under a project directory may change between two scans.
SaveDocs == {"doc1", "doc2"}

InitSave ==
    /\ pc = "save"
    /\ rootDir \in SaveRoots
    /\ disk = <<>>
    /\ cfgDisk = NoConfig
    /\ aliasConfig = [BaseURL |-> <<>>, Aliases |-> NoAliases]
    /\ todo = <<>>
    /\ project = NewProject(rootDir)
    /\ relTodo = {}
    /\ err = "nil"
    /\ fault = NoFault
    /\ jsonOut = <<>>
    /\ saved = NoStore
    /\ probe = [now |-> 0, calls |-> 0]

\* A successful GetProjectJSON(root) at the second probe.now.
GetProjectJSONCall ==
    /\ pc = "save"
    /\ probe.calls < MaxSaves
    /\ \E root \in SaveRoots, doc \in SaveDocs :
          /\ rootDir' = root
          /\ jsonOut' = doc
          /\ saved' = saveProjectJSON(saved, root, doc, probe.now)
    /\ probe' = [probe EXCEPT !.calls = @ + 1]
    /\ UNCHANGED <<pc, disk, cfgDisk, aliasConfig, todo, project, relTodo, err, fault>>

\* Line 437: the clock the next time.Now() reads has moved on by a second.
Tick ==
    /\ pc = "save"
    /\ probe.now < MaxClock
    /\ probe' = [probe EXCEPT !.now = @ + 1]
    /\ UNCHANGED <<pc, rootDir, disk, cfgDisk, aliasConfig, todo, project, relTodo, err,
                   fault, jsonOut, saved>>

NextSave == GetProjectJSONCall \/ Tick

SpecSave == InitSave /\ [][NextSave]_vars

\* C21: a successful GetProjectJSON call leaves every file written before it
\* intact and adds one new file <projectDirName>_<YYYYMMDD_HHMMSS>.json
\* under the per-user directory, which exists afterwards, whatever the timing
\* and the project directories of the calls.
C21_NeverOverwrites ==
    [][probe'.calls # probe.calls =>
          /\ saved'.dir
          /\ \A n \in DOMAIN saved.files :
                n \in DOMAIN saved'.files /\ saved'.files[n] = saved.files[n]
          /\ Cardinality(DOMAIN saved'.files) = Cardinality(DOMAIN saved.files) + 1
          /\ SaveFileName(rootDir', probe.now) \in DOMAIN saved'.files]_vars

-----------------------------------------------------------------------------
(* Two ScanProject runs over one unchanged tree (src/backend.go)           *)

\* Trees whose files import one another: index.js is imported by
\* src/index.js and by src2/b.js.
TwiceDisks ==
    {[f \in S |-> TextOf(f)] : S \in SUBSET {IndexJs, SrcIndex, Src2File}}

InitTwice ==
    /\ pc = "start"
    /\ rootDir \in RootDirs
    /\ disk \in TwiceDisks
    /\ cfgDisk \in ConfigSetups
    /\ aliasConfig = [BaseURL |-> <<>>, Aliases |-> NoAliases]
    /\ todo = <<>>
    /\ project = NewProject(rootDir)
    /\ relTodo = {}
    /\ err = "nil"
    /\ fault = NoFault
    /\ jsonOut = <<>>
    /\ saved = NoStore
    /\ probe = [runs |-> 0, first |-> NewProject(rootDir)]

\* The first ScanProject has returned its Project; ScanProject is called
\* again on the same rootDir.
Rescan ==
    /\ pc = "scanned" /\ err = "nil"
    /\ probe.runs = 0
    /\ probe' = [runs |-> 1, first |-> project]
    /\ pc' = "start"
    /\ UNCHANGED <<rootDir, disk, cfgDisk, aliasConfig, todo, project, relTodo, err,
                   fault, jsonOut, saved>>

NextTwice ==
    \/ StartScan
    \/ WalkDir
    \/ WalkFile
    \/ WalkDone
    \/ BuildRelationshipsStep
    \/ BuildTree
    \/ Rescan

SpecTwice == InitTwice /\ [][NextTwice]_vars

\* C22: a second ScanProject run over the same unchanged tree returns a
\* Project equal to that of the first run: the same files, the same nodesMap
\* with its imports and importedBy sequences, the same stats and the same
\* tree under root.
C22_ScanIsIdempotent ==
    pc = "scanned" /\ probe.runs = 1 => project = probe.first

-----------------------------------------------------------------------------
(* Properties of the classification of files without a state signature     *)

\* C23: a file that matches no state signature is a component exactly when
\* (it has a UI-framework import and (a JSX-like return or (a function /
\* const / class declaration and one of the words render and return))) or
\* its base name starts with an uppercase letter, and is util otherwise; so
\* a lowercase-named file with the import and the word return, without a
\* declaration and without a JSX return, is util.
C23_ComponentRule ==
    pc = "parsed" /\ ~isStateFile(disk[probe.relPath], probe.relPath) =>
        LET text == disk[probe.relPath]
            name == Base(probe.relPath)
            jsxReturn == text.returnParen /\ text.lt /\ text.selfClose
            declared == text.decl /\ (text.render \/ text.return)
            upper == name # <<>> /\ IsUpper(name[1])
        IN  probe.node.Type = IF (text.importReact /\ (jsxReturn \/ declared)) \/ upper
                              THEN "component" ELSE "util"

-----------------------------------------------------------------------------
(* extractImports on relative specifiers, for absolute and relative rootDir *)

\* The root directory as handed to the scan: absolute, or relative to the
\* working directory.
ScanRoots == { <<Sep, "p">>, <<"p">>, <<Dot>>, <<"x", Sep, "p">> }

RelativeSpecifiers ==
    { <<Dot, Sep, "B">>, <<Dot, Sep, "c", Sep, "B">>, <<Dot, Dot, Sep, "index">>,
      <<Dot, Sep, "a", Dot, "css">>, <<Dot>> }

RelativeDirs == { <<Dot>>, <<"src">>, <<"src", Sep, "c">> }

\* No file exists, so the extension probe leaves every identifier as it is.
InitRelative ==
    /\ pc = "extract"
    /\ rootDir \in ScanRoots
    /\ disk = <<>>
    /\ cfgDisk = NoConfig
    /\ aliasConfig = ReadProjectConfig(cfgDisk, FALSE)
    /\ \E l \in UNION {[1..n -> RelativeSpecifiers] : n \in 0..MaxImports},
          d \in RelativeDirs :
          probe = [content |-> Text(FALSE, FALSE, 0, l), dir |-> d, imports |-> <<>>]
    /\ todo = <<>>
    /\ project = NewProject(rootDir)
    /\ relTodo = {}
    /\ err = "nil"
    /\ fault = NoFault
    /\ jsonOut = <<>>
    /\ saved = NoStore

SpecRelative == InitRelative /\ [][ExtractStep]_vars

\* C24: for a specifier starting with '.' in the file F the identifier
\* extractImports produces before the extension probe is F's
\* project-relative directory joined with the specifier, whether rootDir was
\* given as an absolute or as a relative path.
C24_RelativeImportIds ==
    pc = "extracted" =>
        /\ Len(probe.imports) = Len(probe.content.imports)
        /\ \A k \in DOMAIN probe.imports :
              probe.imports[k] = Join(<<probe.dir, probe.content.imports[k]>>)

-----------------------------------------------------------------------------
(* Scans whose root directory carries a name of the skip rule              *)

\* The working directory, a project directory named dist, and /p.
NamedRoots == { <<Dot>>, <<Sep, "dist">>, <<Sep, "p">> }

NamedRootDisks ==
    {[f \in S |-> TextOf(f)] : S \in SUBSET {IndexJs, SrcIndex, ModuleJs, ButtonJsx}}

InitNamedRoot ==
    /\ pc = "start"
    /\ rootDir \in NamedRoots
    /\ disk \in NamedRootDisks
    /\ cfgDisk = NoConfig
    /\ aliasConfig = [BaseURL |-> <<>>, Aliases |-> NoAliases]
    /\ todo = <<>>
    /\ project = NewProject(rootDir)
    /\ relTodo = {}
    /\ err = "nil"
    /\ fault = NoFault
    /\ jsonOut = <<>>
    /\ saved = NoStore
    /\ probe = <<>>

NextNamedRoot ==
    \/ StartScan
    \/ WalkDir
    \/ WalkFile
    \/ WalkDone
    \/ BuildRelationshipsStep
    \/ BuildTree

SpecNamedRoot == InitNamedRoot /\ [][NextNamedRoot]_vars

\* C25: the skip rule prunes only directories below the scan root: when the
\* root directory itself is named node_modules, build or dist or its name
\* begins with '.', it is still walked, and its eligible files outside
\* pruned subdirectories are entries of files and, when named, of nodesMap.
C25_RootIsNeverPruned ==
    ScanReturned =>
        \A f \in WalkedFiles :
            /\ f \in Elems(project.Files)
            /\ NameWithoutExt(f) # <<>> => f \in DOMAIN project.NodesMap

-----------------------------------------------------------------------------
(* Path normalisation of a scan whose file names hold a backslash          *)

\* x/b.js, beside the root-level file x\b.js.
SlashJs == <<"x", Sep, "b", Dot, "js">>

ConvertDisks ==
    {[f \in S |-> TextOf(f)] : S \in SUBSET {BackJs, SlashJs, IndexJs, SrcIndex}}

InitConvert ==
    /\ pc = "start"
    /\ rootDir \in RootDirs
    /\ disk \in ConvertDisks
    /\ cfgDisk = NoConfig
    /\ aliasConfig = [BaseURL |-> <<>>, Aliases |-> NoAliases]
    /\ todo = <<>>
    /\ project = NewProject(rootDir)
    /\ relTodo = {}
    /\ err = "nil"
    /\ fault = NoFault
    /\ jsonOut = <<>>
    /\ saved = NoStore
    /\ probe = <<>>

NextConvert ==
    \/ StartScan
    \/ WalkDir
    \/ WalkFile
    \/ WalkDone
    \/ BuildRelationshipsStep
    \/ BuildTree
    \/ ConvertPaths

SpecConvert == InitConvert /\ [][NextConvert]_vars

\* C26: ConvertProjectPathsToUnix keeps the number of nodesMap entries and
\* leaves every entry under a key equal to its node id, so two registered
\* files never merge into one entry; and converting the converted Project
\* once more changes nothing.
C26_ConversionKeepsEntries ==
    [][pc = "scanned" /\ pc' = "converted" =>
          /\ Cardinality(DOMAIN project'.NodesMap) = Cardinality(DOMAIN project.NodesMap)
          /\ \A k \in DOMAIN project'.NodesMap : project'.NodesMap[k].ID = k
          /\ \A w \in Winners(project'.NodesMap) :
                ConvertProjectPathsToUnix(project', w) = project']_vars

-----------------------------------------------------------------------------
(* Properties of the baseUrl taken from a .js configuration file           *)

\* The .js candidates in which parseJSConfig matches a baseUrl.
JsBaseUrlCandidates(files) ==
    {i \in 1..Len(configFiles) :
        /\ ConfigExt(configFiles[i]) = ".js"
        /\ files[configFiles[i]].exists
        /\ files[configFiles[i]].readable
        /\ files[configFiles[i]].hasBaseUrl}

\* A jsconfig.json or tsconfig.json is parsed and sets the baseUrl.
JsonSuppliesBaseUrl(files) ==
    \E cf \in {"jsconfig.json", "tsconfig.json"} : ReadAndParsed(files, cf)

\* C27: a baseUrl that parseJSConfig takes from a .js configuration file is
\* the baseUrl ReadProjectConfig returns whenever no JSON configuration
\* supplies one, also when a src directory exists at the project root.
C27_JsBaseUrlIsReturned ==
    /\ pc = "configured"
    /\ JsBaseUrlCandidates(cfgDisk) # {}
    /\ ~JsonSuppliesBaseUrl(cfgDisk)
    => LET js == JsBaseUrlCandidates(cfgDisk)
           last == CHOOSE i \in js : \A j \in js : j <= i
       IN  aliasConfig.BaseURL = cfgDisk[configFiles[last]].baseUrl

-----------------------------------------------------------------------------
(* Termination of buildTreeRecursive                                       *)

\* The prefix buildTreeRecursive was called with to fill the node.
PrefixOf(node) == IF node.Type = "root" THEN <<>> ELSE node.Path

\* The number of nested buildTreeRecursive calls that filled the node.
RECURSIVE CallDepth(_)
CallDepth(node) ==
    LET below == {CallDepth(node.Children[i]) :
                     i \in {j \in DOMAIN node.Children :
                               node.Children[j].Type = "directory"}}
    IN  IF below = {} THEN 0 ELSE 1 + CHOOSE d \in below : \A e \in below : e <= d

LongestKey(keys) ==
    IF keys = {} THEN 0
    ELSE CHOOSE n \in {Len(k) : k \in keys} : \A k \in keys : Len(k) <= n

\* C28: buildTreeRecursive terminates for every finite set of directory
\* keys: buildTree returns a tree for every order of the map ranges once
\* buildRelationships has finished, each recursive call is made on a key strictly longer than the prefix of the
\* call that makes it, and the depth of the recursion is at most the length
\* of the longest key.
C28_BuildTreeTerminates ==
    /\ (pc = "relations" /\ relTodo = {}) =>
          \A nodeOrder \in Orders(DOMAIN project.NodesMap),
             dirOrder \in Orders(DirKeys(project.NodesMap)) :
             Len(buildTree(project, nodeOrder, dirOrder).Root.Children) >= 0
    /\ ScanReturned =>
          /\ \A p \in TreeNodes(project.Root) : \A i \in DOMAIN p.Children :
                p.Children[i].Type = "directory" =>
                   Len(p.Children[i].Path) > Len(PrefixOf(p))
          /\ CallDepth(project.Root) <= LongestKey(DirKeys(project.NodesMap))

\* A returned tree in which the directory src/c was built by a call nested
\* in the call for src, beside root-level files under the key ".".
C28_Witness ==
    /\ ScanReturned
    /\ DirKeys(project.NodesMap) = { <<Dot>>, <<"src">>, <<"src", Sep, "c">> }
    /\ CallDepth(project.Root) = 2

-----------------------------------------------------------------------------
(* The tree view of the front end (src/frontend/src/components/TreeView.tsx *)
(* and src/frontend/src/stores/global.ts).  project is the data prop of the *)
(* component; probe holds the component state (treeData, expandedNodes,     *)
(* isLoading), globalStore.selectedFile and the last click.                 *)

\* A Project as the front end receives it: the nodes of the given files,
\* each under its path as identifier.
UiProject(files) ==
    [NewProject(<<Sep, "p">>) EXCEPT
        !.NodesMap = [f \in files |->
                        [ID |-> f, Name |-> TrimSuffix(Base(f), Ext(Base(f))), Path |-> f,
                         Type |-> "util", MultipleComp |-> FALSE, Imports |-> <<>>,
                         ImportedBy |-> <<>>, Children |-> <<>>]],
        !.Files = SortStrings(files)]

RootFile == <<"root", Sep, "a", Dot, "js">>

\* Projects to display; the second holds a top-level directory named root.
UiProjects ==
    { UiProject({IndexJs, SrcIndex}),
      UiProject({RootFile, ButtonJsx}),
      UiProject({Src2File}),
      UiProject({IndexJs, Src2File}),
      UiProject({}) }

\* Lines 66-73: the directory parts of a node path, empty parts skipped.
UiPathParts(path) ==
    LET parts == Split(path)
    IN  SelectSeq(SubSeq(parts, 1, Len(parts) - 1), LAMBDA part : part # <<>>)

\* Line 67: the file name is the last part of the path.
UiFileName(path) == Last(Split(path))

\* The key of directoryMap for the first k parts; "/" stands for the root.
UiDirKey(parts, k) == IF k = 0 THEN <<Sep>> ELSE JoinSep(SubSeq(parts, 1, k))

\* Lines 73-101: the folders buildTree creates, each with the key of the
\* directoryMap entry it is pushed into.
UiFolders(nodesMap) ==
    UNION {{[key |-> UiDirKey(UiPathParts(nodesMap[id].Path), k),
             name |-> UiPathParts(nodesMap[id].Path)[k],
             parent |-> UiDirKey(UiPathParts(nodesMap[id].Path), k - 1)] :
               k \in 1..Len(UiPathParts(nodesMap[id].Path))} : id \in DOMAIN nodesMap}

\* Lines 121-131: children ordered by name.
RECURSIVE UiSortByName(_)
UiSortByName(S) ==
    IF S = {} THEN <<>>
    ELSE LET first == CHOOSE a \in S : \A b \in S \ {a} : StrLess(a.name, b.name)
         IN  <<first>> \o UiSortByName(S \ {first})

\* Lines 103-118: the tree node of a file.
UiFileNode(node) ==
    [id |-> node.ID, name |-> UiFileName(node.Path), type |-> node.Type,
     path |-> node.Path, children |-> <<>>]

\* Lines 80-131: the children of the directoryMap entry under key, folders
\* first, each group by name.
RECURSIVE UiChildren(_, _)
UiChildren(nodesMap, key) ==
    UiSortByName({[id |-> f.key, name |-> f.name, type |-> "folder", path |-> f.key,
                   children |-> UiChildren(nodesMap, f.key)] :
                     f \in {g \in UiFolders(nodesMap) : g.parent = key}})
    \o UiSortByName({UiFileNode(nodesMap[id]) :
                       id \in {i \in DOMAIN nodesMap :
                                 UiDirKey(UiPathParts(nodesMap[i].Path),
                                          Len(UiPathParts(nodesMap[i].Path))) = key}})

\* Lines 45-136: buildTree of TreeView.
UiBuildTree(data) ==
    << [id |-> <<"root">>, name |-> <<"Project Root">>, type |-> "folder",
        path |-> <<Sep>>, children |-> UiChildren(data.NodesMap, <<Sep>>)] >>

\* Line 177: expandedNodes[node.id] || false
IsExpanded(expandedNodes, id) == id \in DOMAIN expandedNodes /\ expandedNodes[id]

\* Line 176: node.children && node.children.length > 0
HasChildren(node) == Len(node.children) > 0

\* Lines 175-309: the nodes on screen, the children of a node drawn only
\* when it has children and is expanded.
RECURSIVE UiRendered(_, _)
UiRendered(node, expandedNodes) ==
    {node} \cup
    IF HasChildren(node) /\ IsExpanded(expandedNodes, node.id)
    THEN UNION {UiRendered(node.children[i], expandedNodes) : i \in 1..Len(node.children)}
    ELSE {}

\* Lines 138-143: toggleNode
toggleNode(expandedNodes, nodeId) ==
    [id \in (DOMAIN expandedNodes) \cup {nodeId} |->
        IF id = nodeId THEN ~IsExpanded(expandedNodes, nodeId) ELSE expandedNodes[id]]

NoClick == [id |-> <<>>, path |-> <<>>, type |-> "none", hasChildren |-> FALSE]

\* Lines 18-22 and global.ts 7-9: the state after construction; the effect
\* of the first render has yet to run.
InitUI ==
    /\ pc = "mounted"
    /\ project \in UiProjects
    /\ probe = [treeData |-> <<>>, expandedNodes |-> <<>>, isLoading |-> TRUE,
                selectedFile |-> <<>>, event |-> NoClick]
    /\ rootDir = <<Sep, "p">>
    /\ disk = <<>>
    /\ cfgDisk = NoConfig
    /\ aliasConfig = [BaseURL |-> <<>>, Aliases |-> NoAliases]
    /\ todo = <<>>
    /\ relTodo = {}
    /\ err = "nil"
    /\ fault = NoFault
    /\ jsonOut = <<>>
    /\ saved = NoStore

\* Lines 25-43: the effect on data; it rebuilds the tree, expands the root
\* alone and writes nothing to globalStore.
TreeEffect(data) ==
    [probe EXCEPT !.treeData = UiBuildTree(data),
                  !.expandedNodes = [id \in {<<"root">>} |-> TRUE],
                  !.isLoading = FALSE,
                  !.event = NoClick]

\* The effect of the first render.
Mount ==
    /\ pc = "mounted"
    /\ pc' = "shown"
    /\ probe' = TreeEffect(project)
    /\ UNCHANGED <<rootDir, disk, cfgDisk, aliasConfig, todo, project, relTodo,
                   err, fault, jsonOut, saved>>

\* A new Project arrives as the data prop and the effect runs again.
LoadProject ==
    /\ pc = "shown"
    /\ \E data \in UiProjects \ {project} :
         /\ project' = data
         /\ probe' = TreeEffect(data)
    /\ UNCHANGED <<pc, rootDir, disk, cfgDisk, aliasConfig, todo, relTodo,
                   err, fault, jsonOut, saved>>

\* Lines 161-172: handleClickNode on a node on screen.
handleClickNode(state, hasChildren, node) ==
    IF node.id = <<"root">> THEN [state EXCEPT !.selectedFile = <<>>]
    ELSE LET toggled == IF hasChildren
                        THEN [state EXCEPT !.expandedNodes = toggleNode(@, node.id)]
                        ELSE state
         IN  IF ~hasChildren /\ node.type # "folder"
             THEN [toggled EXCEPT !.selectedFile = node.id]
             ELSE toggled

\* Line 200: the click handler of a node on screen.
ClickNode ==
    /\ pc = "shown"
    /\ \E node \in UiRendered(probe.treeData[1], probe.expandedNodes) :
         probe' = [handleClickNode(probe, HasChildren(node), node) EXCEPT
                     !.event = [id |-> node.id, path |-> node.path, type |-> node.type,
                                hasChildren |-> HasChildren(node)]]
    /\ UNCHANGED <<pc, rootDir, disk, cfgDisk, aliasConfig, todo, project, relTodo,
                   err, fault, jsonOut, saved>>

NextUI == Mount \/ LoadProject \/ ClickNode

SpecUI == InitUI /\ [][NextUI]_vars

\* C29: after any clicks and loads, globalStore.selectedFile is the empty
\* string or the id of a node of the Project on display.
C29_SelectionBelongsToDisplayedProject ==
    pc = "shown" => \/ probe.selectedFile = <<>>
                    \/ probe.selectedFile \in DOMAIN project.NodesMap


\* A step of ClickNode: the click it records is the one just handled.
ClickStep == pc = "shown" /\ pc' = "shown" /\ project' = project /\ probe'.event # NoClick

\* The flags of every node but id are as before.
OtherFlagsKept(id) ==
    \A other \in ((DOMAIN probe.expandedNodes) \cup (DOMAIN probe'.expandedNodes)) \ {id} :
        IsExpanded(probe'.expandedNodes, other) = IsExpanded(probe.expandedNodes, other)

\* C30: a click on a folder with children flips that folder's expanded flag
\* alone and keeps selectedFile; a click on a file selects it and keeps
\* expandedNodes; a click on the root node clears selectedFile; and the root
\* is expanded in every state from the moment the tree is built.
C30_ClickFrameEffects ==
    /\ [](pc = "shown" => IsExpanded(probe.expandedNodes, <<"root">>))
    /\ [][ClickStep =>
            LET click == probe'.event
            IN  /\ (click.type = "folder" /\ click.hasChildren /\ click.path # <<Sep>>) =>
                     /\ IsExpanded(probe'.expandedNodes, click.id)
                          = ~IsExpanded(probe.expandedNodes, click.id)
                     /\ OtherFlagsKept(click.id)
                     /\ probe'.selectedFile = probe.selectedFile
                /\ click.type # "folder" =>
                     /\ probe'.selectedFile = click.id
                     /\ probe'.expandedNodes = probe.expandedNodes
                /\ click.path = <<Sep>> =>
                     /\ probe'.selectedFile = <<>>
                     /\ IsExpanded(probe'.expandedNodes, <<"root">>)]_vars

=============================================================================
